---- MODULE Spec2Model ----
(***************************************************************************)
(* A model of the matcher: the left-half tiling enumeration                *)
(* (enumeration/mod.rs), the compatibility builder (enumeration/compat.rs) *)
(* and the pair solver and driver (matching/solve.rs, matching/driver.rs). *)
(*                                                                         *)
(* Machine words wider than TLC's integers (u64 bitboards, u128 packed     *)
(* codes) are represented by the set of their set bit positions: bit p of  *)
(* the word is 1 iff p is in the set.  Shifts, masks, popcount and the     *)
(* unsigned order are translated to that representation bit for bit.       *)
(***************************************************************************)
EXTENDS Integers, Sequences, FiniteSets, TLC

VARIABLES
    \* ---- enumerate_to_snapshot: inputs and environment
    n,              \* board size N
    m,              \* number of pieces M
    pre,            \* PreCsr: [masks, pops, jidx, offsets, n_roots]
    jbt_ref_pop,    \* population of piece j (sequence, piece j at index j+1)
    pend_flush,     \* pend_flush_codes(): ENUM_PEND_FLUSH
    first_limit,    \* first_bucket_limit(): ENUM_FIRST_LIMIT, None or a number
    mem_budget,     \* memory_budget_bytes() is Some(_)
    overflow_checks, \* the build has overflow checks (debug profile)
    \* ---- enumerate_to_snapshot: locals
    pc,             \* position of the driver thread
    i,              \* the root being processed
    all_frontiers,  \* Vec<RootFrontier>, root r at index r+1
    out,            \* OutBuckets.by_key
    saturated,      \* SATURATED_WEIGHTS
    pmasks,         \* masks taken from root i's frontier
    buckets,        \* buckets taken from root i's frontier
    jobs,           \* per-piece results of the parallel vacate
    snapshot,       \* the Snapshot returned
    mem_reports,    \* calls of report_memory_after_vacate so far
    \* ---- a free-standing AOBucket
    bkt,            \* the bucket
    bkt_hist,       \* multiset of (code, weight) appended so far
    bkt_last,       \* the last operation applied to bkt
    \* ---- compatibility table construction
    cmp_in,         \* the inputs: N, pops, comps, archive table
    cmp_out,        \* snap.compat once built
    \* ---- pair solver and driver
    snap,           \* the Snapshot handed to run_all_pairs_parallel
    tasks,          \* (left, right, factor) tasks
    results,        \* PairResult.subtotal per finished task
    \* ---- a free-standing packed code
    cw_m,           \* the piece count M the field width is taken from
    cw_code,        \* the code under construction
    cw_set,         \* the indices entered in cw_code (inserted == true)
    cw_other,       \* None, or Some of a second code set aside
    cw_oset,        \* the indices entered in the code set aside
    \* ---- a free-standing bitboard
    bd_n,           \* board size N
    bd_checks,      \* the build has overflow checks (debug profile)
    bd_mask,        \* partial_mask
    bd_evil,        \* outcome of detect_evil_pmask(bd_mask, N)
    bd_seed,        \* seed of the last flood_fill
    bd_fill,        \* outcome of the last flood_fill
    \* ---- loading an archive
    ld_in,          \* the arrays of the archive
    ld_out          \* how far enumerate_to_snapshot_from_npz got

vars == <<n, m, pre, jbt_ref_pop, pend_flush, first_limit, mem_budget,
          overflow_checks,
          pc, i, all_frontiers, out, saturated, pmasks, buckets, jobs,
          snapshot, mem_reports, bkt, bkt_hist, bkt_last, cmp_in, cmp_out,
          snap, tasks, results,
          cw_m, cw_code, cw_set, cw_other, cw_oset,
          bd_n, bd_checks, bd_mask, bd_evil, bd_seed, bd_fill,
          ld_in, ld_out>>

enumVars == <<n, m, pre, jbt_ref_pop, pend_flush, first_limit, mem_budget,
              overflow_checks,
              pc, i, all_frontiers, out, saturated, pmasks, buckets, jobs,
              snapshot, mem_reports>>
bktVars == <<bkt, bkt_hist, bkt_last>>
cmpVars == <<cmp_in, cmp_out>>
solveVars == <<snap, tasks, results>>
codeVars == <<cw_m, cw_code, cw_set, cw_other, cw_oset>>
boardVars == <<bd_n, bd_checks, bd_mask, bd_evil, bd_seed, bd_fill>>
loadVars == <<ld_in, ld_out>>
pureVars == <<codeVars, boardVars, loadVars>>

\* Option<T>: None is the empty sequence, Some(x) is <<x>>
None == <<>>
Some(x) == <<x>>

(***************************************************************************)
(* Generic helpers                                                         *)
(***************************************************************************)
Max(a, b) == IF a >= b THEN a ELSE b
Min(a, b) == IF a <= b THEN a ELSE b
SetMax(S) == CHOOSE x \in S : \A y \in S : y <= x
SetMin(S) == CHOOSE x \in S : \A y \in S : x <= y

RECURSIVE SumSeq(_)
SumSeq(s) == IF s = <<>> THEN 0 ELSE Head(s) + SumSeq(Tail(s))

RECURSIVE Concat(_)
Concat(ss) == IF ss = <<>> THEN <<>> ELSE Head(ss) \o Concat(Tail(ss))

RECURSIVE SeqOfSet(_)
\* the elements of a finite set of integers in ascending order
SeqOfSet(S) == IF S = {} THEN <<>> ELSE <<SetMin(S)>> \o SeqOfSet(S \ {SetMin(S)})

Range(s) == {s[x] : x \in DOMAIN s}

\* bit t of the non-negative integer v
BitOf(v, t) == (v \div (2^t)) % 2
\* the integer whose bits are the positions lo .. lo+width-1 of the word w
Field(w, lo, width) ==
    LET RECURSIVE F(_)
        F(t) == IF t >= width THEN 0
                ELSE (IF (lo + t) \in w THEN 2^t ELSE 0) + F(t + 1)
    IN F(0)
\* the word holding the low `width` bits of v at position lo
Place(v, lo, width) == {lo + t : t \in {u \in 0..(width - 1) : BitOf(v, u) = 1}}
\* WordLess deciding on the lowest differing bit
WordLess_lowest_bit(a, b) ==
    LET d == (a \ b) \cup (b \ a) IN d # {} /\ SetMin(d) \in b
\* unsigned order of two words
WordLess(a, b) ==
    LET d == (a \ b) \cup (b \ a) IN d # {} /\ SetMax(d) \in b

(***************************************************************************)
(* Packed row code (u128)                                                  *)
(***************************************************************************)
next_power_of_two(x) ==
    LET RECURSIVE P(_)
        P(k) == IF 2^k >= x THEN 2^k ELSE P(k + 1)
    IN P(0)
trailing_zeros(x) ==
    LET RECURSIVE T(_)
        T(k) == IF BitOf(x, k) = 1 THEN k ELSE T(k + 1)
    IN T(0)

bitwidth(mm) ==
    LET m1 == IF mm >= 1 THEN mm - 1 ELSE 0
    IN Max(1, trailing_zeros(next_power_of_two(m1)))

code_len(code) == Field(code, 0, 4)

code_get(code, idx, b) ==
    LET shift == 4 + idx * b IN
    IF shift < 64
    THEN LET rem == 64 - shift IN
         IF b <= rem
         THEN Field(code \cap (0..63), shift, b)
         ELSE LET low == Field(code \cap (0..63), shift, rem)
                  hi == Field(code \cap (64..127), 64, b - rem)
              IN hi * (2^rem) + low
    ELSE LET s == shift - 64
         IN Field(code \cap (64..127), 64 + s, b)

code_set(code, idx, b, val) ==
    LET shift == 4 + idx * b IN
    IF shift < 64
    THEN LET rem == 64 - shift IN
         IF b <= rem
         THEN (code \ (shift..(shift + b - 1))) \cup Place(val, shift, b)
         ELSE LET low_bits == rem
                  hi_bits == b - low_bits
                  low_part == Place(val, shift, low_bits)
                  hi_part == {64 + t : t \in {u \in 0..(hi_bits - 1) :
                                              BitOf(val, low_bits + u) = 1}}
                  c1 == (code \ (shift..63)) \cup low_part
              IN (c1 \ (64..(64 + hi_bits - 1))) \cup hi_part
    ELSE LET s == shift - 64
         IN ((code \ ((64 + s)..(64 + s + b - 1))) \cup Place(val, 64 + s, b))
                \cap (0..127)

code_with_len(code, k) == (code \ (0..3)) \cup Place(k, 0, 4)

\* code_search without the search: the index is always put last
code_search_append(code, j, b, lo, hi) == hi

\* the binary search of code_insert: the position lo it ends at
RECURSIVE code_search(_, _, _, _, _)
code_search(code, j, b, lo, hi) ==
    IF lo < hi
    THEN LET mid == (lo + hi) \div 2 IN
         IF code_get(code, mid, b) < j
         THEN code_search(code, j, b, mid + 1, hi)
         ELSE code_search(code, j, b, lo, mid)
    ELSE lo

\* the shifting loop of code_insert
RECURSIVE code_shift_up(_, _, _, _)
code_shift_up(outc, idx, lo, b) ==
    IF idx > lo
    THEN code_shift_up(code_set(outc, idx, b, code_get(outc, idx - 1, b)),
                       idx - 1, lo, b)
    ELSE outc

\* <<new_code, inserted>>
code_insert(code, j, b) ==
    LET k == code_len(code)
        lo == code_search(code, j, b, 0, k)
    IN IF lo < k /\ code_get(code, lo, b) = j THEN <<code, FALSE>>
       ELSE IF k >= 10 THEN <<code, FALSE>>
       ELSE <<code_with_len(code_set(code_shift_up(code, k, lo, b), lo, b, j),
                            k + 1), TRUE>>

code_iter(code, b) == [x \in 1..code_len(code) |-> code_get(code, x - 1, b)]

(***************************************************************************)
(* Bitboard helpers (u64; bit x*N + y is cell (x, y))                      *)
(***************************************************************************)
left_half_mask(nn) == IF nn = 0 THEN {} ELSE (0..(nn * (nn \div 2) - 1)) \cap (0..63)

col_mask(nn, x) == {x * nn + y : y \in 0..(nn - 1)} \cap (0..63)

\* <<top, bot>>; a shift amount of 64 or more wraps modulo 64 (release build)
edge_masks(nn) ==
    <<{(x * nn + (nn - 1)) % 64 : x \in 0..(nn - 1)},
      {(x * nn) % 64 : x \in 0..(nn - 1)}>>

\* flood_loop stopping after the first expansion
flood_loop_single_pass(comp, frontier, domain, nn) ==
    LET em == edge_masks(nn)
        up == {p + 1 : p \in frontier \ em[1]} \cap (0..63)
        down == {p - 1 : p \in frontier \ em[2]} \cap (0..63)
        left == {p - nn : p \in frontier} \cap (0..63)
        right == {p + nn : p \in frontier} \cap (0..63)
    IN comp \cup frontier \cup ((up \cup down \cup left \cup right) \cap domain)

RECURSIVE flood_loop(_, _, _, _)
flood_loop(comp, frontier, domain, nn) ==
    IF frontier = {} THEN comp
    ELSE LET em == edge_masks(nn)
             comp2 == comp \cup frontier
             up == {p + 1 : p \in frontier \ em[1]} \cap (0..63)
             down == {p - 1 : p \in frontier \ em[2]} \cap (0..63)
             left == {p - nn : p \in frontier} \cap (0..63)
             right == {p + nn : p \in frontier} \cap (0..63)
         IN flood_loop(comp2,
                       ((up \cup down \cup left \cup right) \cap domain) \ comp2,
                       domain, nn)

flood_fill(seed, domain, nn) ==
    IF seed = {} THEN {} ELSE flood_loop({}, seed \cap domain, domain, nn)

RECURSIVE evil_loop(_, _, _)
evil_loop(complement, escape, nn) ==
    IF complement = {} THEN FALSE
    ELSE LET seed == {SetMin(complement)}
             comp == flood_fill(seed, complement, nn)
         IN IF comp \cap escape # {} THEN evil_loop(complement \ comp, escape, nn)
            ELSE IF Cardinality(comp) % nn # 0 THEN TRUE
            ELSE evil_loop(complement \ comp, escape, nn)

detect_evil_pmask(partial_mask, nn) ==
    LET half == left_half_mask(nn)
        escape == col_mask(nn, nn \div 2 - 1)
        complement == (partial_mask \ half) \cup (half \ partial_mask)
    IN evil_loop(complement, escape, nn)

\* edge_masks shifts 1u64 by up to n*n - 1; a shift by 64 or more panics in
\* a build with overflow checks
edge_shift_overflows(nn) == nn * nn - 1 >= 64

\* [panic |-> the call panicked, value |-> what it returned]
flood_fill_outcome(seed, domain, nn, checks) ==
    IF seed = {} THEN [panic |-> FALSE, value |-> {}]
    ELSE IF checks /\ edge_shift_overflows(nn) THEN [panic |-> TRUE, value |-> {}]
    ELSE [panic |-> FALSE, value |-> flood_fill(seed, domain, nn)]

\* the first flood_fill is called with a non-empty seed unless the
\* complement is empty
detect_evil_outcome(partial_mask, nn, checks) ==
    LET half == left_half_mask(nn)
        complement == (partial_mask \ half) \cup (half \ partial_mask)
    IN IF complement # {} /\ checks /\ edge_shift_overflows(nn)
       THEN [panic |-> TRUE, value |-> FALSE]
       ELSE [panic |-> FALSE, value |-> detect_evil_pmask(partial_mask, nn)]

\* None, or Some(<<x, y>>) of the lowest uncovered cell
find_root(partial_mask, nn) ==
    LET left == left_half_mask(nn)
        complement == (partial_mask \ left) \cup (left \ partial_mask)
    IN IF complement = {} THEN None
       ELSE LET bit_pos == SetMin(complement)
            IN Some(<<bit_pos \div nn, bit_pos % nn>>)

(***************************************************************************)
(* AOBucket                                                                *)
(***************************************************************************)
\* Weight::MAX.  Weight is u32; the clamp is scaled down so that TLC's
\* integers hold every sum and a saturation is within reach of small inputs.
WEIGHT_MAX == 2

EmptyBucket == [codes |-> <<>>, weights |-> <<>>, pend_codes |-> <<>>, pend_w |-> <<>>]

\* idx.sort_unstable_by_key(|&i| all_codes[i]): positions ordered by code value.
\* Positions holding equal codes end up adjacent, in an order the unstable sort
\* fixes arbitrarily; the run-merge below adds their weights, so any of these
\* orders gives the same result and the lowest position is taken first.
RECURSIVE sort_idx_unsorted(_, _)
\* sort_idx leaving the positions in the order of arrival
sort_idx_unsorted(all_codes, left) ==
    IF left = {} THEN <<>>
    ELSE <<SetMin(left)>> \o sort_idx_unsorted(all_codes, left \ {SetMin(left)})

RECURSIVE sort_idx(_, _)
sort_idx(all_codes, left) ==
    IF left = {} THEN <<>>
    ELSE LET best == CHOOSE x \in left :
                        \A y \in left :
                            \/ WordLess(all_codes[x], all_codes[y])
                            \/ (all_codes[x] = all_codes[y] /\ x <= y)
         IN <<best>> \o sort_idx(all_codes, left \ {best})

\* run_sum keeping the weight of the first entry of the run
RECURSIVE run_sum_keep_first(_, _, _, _, _, _)
run_sum_keep_first(all_codes, all_w, idx, c, sum, pos) ==
    IF pos <= Len(idx) /\ all_codes[idx[pos]] = c
    THEN run_sum_keep_first(all_codes, all_w, idx, c, sum, pos + 1)
    ELSE <<sum, pos>>

\* the inner while loop of flush: <<sum, next position>>
RECURSIVE run_sum(_, _, _, _, _, _)
run_sum(all_codes, all_w, idx, c, sum, pos) ==
    IF pos <= Len(idx) /\ all_codes[idx[pos]] = c
    THEN run_sum(all_codes, all_w, idx, c, sum + all_w[idx[pos]], pos + 1)
    ELSE <<sum, pos>>

\* the outer while loop of flush: [codes, weights, sat]
RECURSIVE run_merge(_, _, _, _, _)
run_merge(all_codes, all_w, idx, pos, acc) ==
    IF pos > Len(idx) THEN acc
    ELSE LET c == all_codes[idx[pos]]
             r == run_sum(all_codes, all_w, idx, c, all_w[idx[pos]], pos + 1)
             over == r[1] > WEIGHT_MAX
             packed == IF over THEN WEIGHT_MAX ELSE r[1]
         IN run_merge(all_codes, all_w, idx, r[2],
                      [codes |-> Append(acc.codes, c),
                       weights |-> Append(acc.weights, packed),
                       sat |-> acc.sat + (IF over THEN 1 ELSE 0)])

\* flush merging the pending entries only, the committed ones dropped
flush_pending_only(bk) ==
    IF bk.pend_codes = <<>> THEN [b |-> bk, sat |-> 0]
    ELSE LET idx == sort_idx(bk.pend_codes, 1..Len(bk.pend_codes))
             r == run_merge(bk.pend_codes, bk.pend_w, idx, 1,
                            [codes |-> <<>>, weights |-> <<>>, sat |-> 0])
         IN [b |-> [codes |-> r.codes, weights |-> r.weights,
                    pend_codes |-> <<>>, pend_w |-> <<>>],
             sat |-> r.sat]

\* AOBucket::flush: [b |-> the bucket after, sat |-> saturations counted]
flush(bk) ==
    IF bk.pend_codes = <<>> THEN [b |-> bk, sat |-> 0]
    ELSE LET all_codes == bk.codes \o bk.pend_codes
             all_w == bk.weights \o bk.pend_w
             idx == sort_idx(all_codes, 1..Len(all_codes))
             r == run_merge(all_codes, all_w, idx, 1,
                            [codes |-> <<>>, weights |-> <<>>, sat |-> 0])
         IN [b |-> [codes |-> r.codes, weights |-> r.weights,
                    pend_codes |-> <<>>, pend_w |-> <<>>],
             sat |-> r.sat]

\* AOBucket::append_batch under the flush threshold pf
append_batch(bk, codes, w, pf) ==
    IF codes = <<>> THEN [b |-> bk, sat |-> 0]
    ELSE LET b1 == [bk EXCEPT !.pend_codes = @ \o codes, !.pend_w = @ \o w]
         IN IF Len(b1.pend_codes) >= pf THEN flush(b1) ELSE [b |-> b1, sat |-> 0]

(***************************************************************************)
(* Population keys (u64): nibble 0 is the length, nibbles 1.. the digits.  *)
(* A key is held as the sequence of its nibbles, lowest first.             *)
(***************************************************************************)
RECURSIVE sort_unstable(_)
sort_unstable(s) ==
    IF s = <<>> THEN <<>>
    ELSE LET lo == SetMin(Range(s))
             at == CHOOSE x \in DOMAIN s : s[x] = lo
         IN <<lo>> \o sort_unstable([y \in 1..(Len(s) - 1) |->
                                        IF y < at THEN s[y] ELSE s[y + 1]])

pack_pop_key(pops) ==
    LET sorted == sort_unstable(pops)
    IN <<Len(sorted) % 16>> \o [x \in 1..Len(sorted) |-> sorted[x] % 16]

\* code_pop_key packing the piece indices instead of their populations
code_pop_key_by_index(code, b, j_pop) ==
    LET js == code_iter(code, b)
    IN pack_pop_key([x \in 1..Len(js) |-> js[x] % 256])

code_pop_key(code, b, j_pop) ==
    LET js == code_iter(code, b)
    IN pack_pop_key([x \in 1..Len(js) |-> j_pop[js[x] + 1] % 256])

\* the value order of two keys (keys.sort_unstable() in build_snapshot_from_out)
KeyNibble(key, x) == IF x <= Len(key) THEN key[x] ELSE 0
KeyLess(k1, k2) ==
    \E x \in 1..16 :
        /\ KeyNibble(k1, x) < KeyNibble(k2, x)
        /\ \A y \in (x + 1)..16 : KeyNibble(k1, y) = KeyNibble(k2, y)

(***************************************************************************)
(* RootFrontier and OutBuckets                                             *)
(***************************************************************************)
EmptyFrontier == [masks |-> <<>>, buckets |-> <<>>]

\* RootFrontier::get_bucket_mut followed by append_batch on the bucket found.
\* index maps a mask to its position in masks/buckets; the three are filled
\* and emptied together, so the position is looked up in masks.
frontier_append(rf, mask, codes, w, pf) ==
    IF \E p \in DOMAIN rf.masks : rf.masks[p] = mask
    THEN LET pos == CHOOSE p \in DOMAIN rf.masks : rf.masks[p] = mask
             r == append_batch(rf.buckets[pos], codes, w, pf)
         IN [rf |-> [rf EXCEPT !.buckets[pos] = r.b], sat |-> r.sat]
    ELSE LET r == append_batch(EmptyBucket, codes, w, pf)
         IN [rf |-> [masks |-> Append(rf.masks, mask),
                     buckets |-> Append(rf.buckets, r.b)],
             sat |-> r.sat]

\* RootFrontier::flush
frontier_flush(rf) ==
    [rf |-> [rf EXCEPT !.buckets = [p \in DOMAIN rf.buckets |-> flush(rf.buckets[p]).b]],
     sat |-> SumSeq([p \in DOMAIN rf.buckets |-> flush(rf.buckets[p]).sat])]

\* OutBuckets::append_completed
append_completed(o, key, codes, w, pf) ==
    LET old == IF key \in DOMAIN o THEN o[key] ELSE EmptyBucket
        r == append_batch(old, codes, w, pf)
    IN [out |-> [kk \in DOMAIN o \cup {key} |-> IF kk = key THEN r.b ELSE o[kk]],
        sat |-> r.sat]

\* OutBuckets::flush_all
RECURSIVE SumOver(_, _)
SumOver(f, S) ==
    IF S = {} THEN 0
    ELSE LET x == CHOOSE y \in S : TRUE IN f[x] + SumOver(f, S \ {x})

flush_all(o) ==
    [out |-> [kk \in DOMAIN o |-> flush(o[kk]).b],
     sat |-> SumOver([kk \in DOMAIN o |-> flush(o[kk]).sat], DOMAIN o)]

(***************************************************************************)
(* build_snapshot_from_out                                                 *)
(***************************************************************************)
RECURSIVE sort_keys(_)
sort_keys(S) ==
    IF S = {} THEN <<>>
    ELSE LET lo == CHOOSE x \in S : \A y \in S \ {x} : KeyLess(x, y)
         IN <<lo>> \o sort_keys(S \ {lo})

RECURSIVE prefix_sums(_, _)
prefix_sums(lens, last) ==
    IF lens = <<>> THEN <<>>
    ELSE <<last + Head(lens)>> \o prefix_sums(Tail(lens), last + Head(lens))

bucket_from(bk, key, b) ==
    LET rows == [r \in DOMAIN bk.codes |-> code_iter(bk.codes[r], b)]
        k == KeyNibble(key, 1)
    IN [rows_data |-> Concat(rows),
        indptr |-> <<0>> \o prefix_sums([r \in DOMAIN rows |-> Len(rows[r])], 0),
        weights |-> bk.weights,
        key |-> [x \in 1..k |-> KeyNibble(key, x + 1)]]

build_snapshot_from_out(o, b, j_pop, n_total) ==
    LET keys == sort_keys(DOMAIN o)
    IN [buckets |-> [x \in DOMAIN keys |-> bucket_from(o[keys[x]], keys[x], b)],
        jbt_ref_pop |-> j_pop,
        n_total |-> n_total,
        compat |-> <<>>]

\* Bucket::n_rows and Bucket::row_slice (row r counted from 0)
n_rows(bucket) == IF Len(bucket.indptr) >= 1 THEN Len(bucket.indptr) - 1 ELSE 0
row_slice(bucket, r) ==
    SubSeq(bucket.rows_data, bucket.indptr[r + 1] + 1, bucket.indptr[r + 2])

(***************************************************************************)
(* Inputs of the enumeration.  A library is a subset of a catalogue of     *)
(* pieces, stored as the archive stores it: entries grouped by anchor root *)
(* (the lowest cell of the mask), pops[k] the popcount of masks[k], and    *)
(* every entry a piece of its own (jidx is a bijection onto 0..M-1).       *)
(***************************************************************************)
BoardSizes == {2, 4}

\* the boards enumerated: the small ones with every library of a catalogue,
\* and the 10x10 board, whose edge masks overflow, with libraries of columns
EnumBoardSizes == BoardSizes \cup {10}

\* pieces in anchor order
Catalogue(nn) ==
    IF nn = 2 THEN << {0}, {0, 1}, {1} >>
    ELSE IF nn = 10 THEN << 0..4, 0..9, 5..9 >>
    ELSE << {0, 1, 2, 3}, {0, 1, 4, 5}, {0, 1, 2, 4}, {0, 1},
            {2, 3, 6, 7}, {2, 6, 7}, {2, 3}, {3, 5, 6, 7}, {3},
            {4, 5, 6, 7}, {4, 5} >>

PEND_FLUSH_DEFAULT == 32768
PendFlushChoices == {1, 2, PEND_FLUSH_DEFAULT}
FirstLimitChoices == {None, Some(1)}

MakePre(nn, S, rev) ==
    LET cat == Catalogue(nn)
        ks == SeqOfSet(S)
        nnz == Len(ks)
        n_roots == (nn \div 2) * nn
    IN [masks |-> [k \in 1..nnz |-> cat[ks[k]]],
        pops |-> [k \in 1..nnz |-> Cardinality(cat[ks[k]])],
        jidx |-> [k \in 1..nnz |-> IF rev THEN nnz - k ELSE k - 1],
        offsets |-> [r \in 1..(n_roots + 1) |->
                        Cardinality({k \in 1..nnz : SetMin(cat[ks[k]]) < r - 1})],
        n_roots |-> n_roots]

\* jbt_ref_pop of a library: the population of the piece with index j
MakePop(p) ==
    [j1 \in 1..Len(p.masks) |->
        p.pops[CHOOSE k \in 1..Len(p.masks) : p.jidx[k] = j1 - 1]]

(***************************************************************************)
(* enumerate_to_snapshot                                                   *)
(***************************************************************************)
B == bitwidth(m)
TotalRoots == (n \div 2) * n
\* EvilCut leaving the test out for the last two columns
EvilCut_two_columns == TotalRoots - 2 * n

EvilCut == TotalRoots - n

\* RootCode filing every unfinished mask under the root being processed
RootCode_current_root(new_mask) ==
    IF find_root(new_mask, n) = None THEN -1 ELSE i

RootCode(new_mask) ==
    LET r == find_root(new_mask, n)
    IN IF r = None THEN -1 ELSE r[1][1] * n + r[1][2]

\* Kept without the evil test
Kept_no_evil_test(k_pre) ==
    LET ok(idx) == pmasks[idx] \cap pre.masks[k_pre] = {}
    IN SelectSeq([x \in 1..Len(pmasks) |-> x], ok)

\* positions of pmasks that survive piece k_pre and are not pruned, in order
Kept(k_pre) ==
    LET ok(idx) ==
            /\ pmasks[idx] \cap pre.masks[k_pre] = {}
            /\ ~(i < EvilCut /\ detect_evil_pmask(pmasks[idx] \cup pre.masks[k_pre], n))
    IN SelectSeq([x \in 1..Len(pmasks) |-> x], ok)

GroupKey(k_pre, idx) ==
    LET new_mask == pmasks[idx] \cup pre.masks[k_pre]
    IN <<RootCode(new_mask), new_mask>>

\* group: destination key -> positions of pmasks, in order
Group(k_pre) ==
    LET kept == Kept(k_pre)
    IN [key \in {GroupKey(k_pre, kept[x]) : x \in DOMAIN kept} |->
            LET here(idx) == GroupKey(k_pre, idx) = key IN SelectSeq(kept, here)]

\* JoinCode entering every piece, whatever its population
JoinCode_always_insert(k_pre, c) ==
    code_insert(c, pre.jidx[k_pre], B)[1]

\* the code a piece gives a survivor's code: unchanged for a piece of pop N
JoinCode(k_pre, c) ==
    IF pre.pops[k_pre] = n THEN c ELSE code_insert(c, pre.jidx[k_pre], B)[1]

\* the (code, weight) pairs one group yields, in order
GroupPairs(k_pre, idx_list) ==
    Concat([x \in DOMAIN idx_list |->
              LET bk == buckets[idx_list[x]]
              IN [y \in DOMAIN bk.codes |->
                    <<JoinCode(k_pre, bk.codes[y]), bk.weights[y]>>]])

PairsToVecs(ps) ==
    [codes |-> [x \in DOMAIN ps |-> ps[x][1]], w |-> [x \in DOMAIN ps |-> ps[x][2]]]

\* what the worker of piece k_pre returns: (frontier_map, completed_map).
\* Only the group of the full mask has root_code -1, so the completed map is
\* filled from one group.
VacateJob(k_pre) ==
    LET group == Group(k_pre)
        full == pre.pops[k_pre] = n
        fkeys == {key \in DOMAIN group :
                    /\ key[1] # -1
                    /\ (full => GroupPairs(k_pre, group[key]) # <<>>)}
        done == Concat([x \in 1..Cardinality({key \in DOMAIN group : key[1] = -1}) |->
                    GroupPairs(k_pre, group[CHOOSE key \in DOMAIN group : key[1] = -1])])
        keyOf(pr) == code_pop_key(pr[1], B, jbt_ref_pop)
    IN [done |-> TRUE,
        frontier_map |->
            [key \in fkeys |-> PairsToVecs(GroupPairs(k_pre, group[key]))],
        completed_map |->
            [key \in {keyOf(done[x]) : x \in DOMAIN done} |->
                LET same(pr) == keyOf(pr) = key IN PairsToVecs(SelectSeq(done, same))]]

\* a job whose worker has not returned yet
NoJob == [done |-> FALSE, frontier_map |-> <<>>, completed_map |-> <<>>]

\* the entries of root r in the library, as positions 1..nnz
RangeOf(r) ==
    LET s == pre.offsets[r + 1]
        e == pre.offsets[r + 2]
        e_eff == IF r = 0 /\ first_limit # None
                 THEN s + Min(e - s, first_limit[1]) ELSE e
    IN [s |-> s, e |-> e, e_eff |-> e_eff]

InitEnum ==
    /\ n \in EnumBoardSizes
    /\ \E S \in SUBSET (DOMAIN Catalogue(n)), rev \in BOOLEAN :
          /\ pre = MakePre(n, S, rev)
          /\ m = Cardinality(S)
    /\ jbt_ref_pop = MakePop(pre)
    /\ pend_flush \in PendFlushChoices
    /\ first_limit \in FirstLimitChoices
    /\ mem_budget \in BOOLEAN
    /\ overflow_checks \in (IF edge_shift_overflows(n) THEN BOOLEAN ELSE {FALSE})
    /\ pc = "entry"
    /\ i = 0
    /\ all_frontiers = <<>>
    /\ out = <<>>
    /\ saturated = 0
    /\ pmasks = <<>>
    /\ buckets = <<>>
    /\ jobs = <<>>
    /\ snapshot = None
    /\ mem_reports = 0

\* entry of enumerate_to_snapshot: the root-count check and the seed
Enter ==
    /\ pc = "entry"
    /\ IF pre.n_roots # TotalRoots
       THEN /\ pc' = "error"
            /\ UNCHANGED <<all_frontiers, saturated>>
       ELSE LET seeded == frontier_append(EmptyFrontier, {}, << {} >>, <<1>>, pend_flush)
            IN /\ all_frontiers' = [r \in 1..TotalRoots |->
                                      IF r = 1 THEN seeded.rf ELSE EmptyFrontier]
               /\ saturated' = saturated + seeded.sat
               /\ pc' = "root"
    /\ UNCHANGED <<n, m, pre, jbt_ref_pop, pend_flush, first_limit, mem_budget,
                   overflow_checks,
                   i, out, pmasks, buckets, jobs, snapshot, mem_reports>>
    /\ UNCHANGED <<bktVars, cmpVars, solveVars, pureVars>>

\* top of the loop body: flush and take root i's frontier, check the memory
\* budget, find the library range; rss_over is report_memory_after_vacate
\* finding the RSS above the configured budget
BeginRoot ==
    /\ pc = "root"
    /\ i < TotalRoots
    /\ \E rss_over \in (IF mem_budget THEN BOOLEAN ELSE {FALSE}) :
        LET fl == frontier_flush(all_frontiers[i + 1])
            rg == RangeOf(i)
        IN /\ all_frontiers' = [all_frontiers EXCEPT ![i + 1] = EmptyFrontier]
           /\ saturated' = saturated + fl.sat
           /\ mem_reports' = mem_reports + 1
           /\ IF rss_over
              THEN /\ pc' = "error"
                   /\ pmasks' = <<>>
                   /\ buckets' = <<>>
                   /\ UNCHANGED <<i, jobs>>
              ELSE IF rg.s = rg.e \/ fl.rf.masks = <<>>
              THEN /\ pc' = "root"
                   /\ i' = i + 1
                   /\ pmasks' = <<>>
                   /\ buckets' = <<>>
                   /\ UNCHANGED jobs
              ELSE /\ pc' = "vacate"
                   /\ pmasks' = fl.rf.masks
                   /\ buckets' = fl.rf.buckets
                   /\ jobs' = [k \in (rg.s + 1)..rg.e_eff |-> NoJob]
                   /\ UNCHANGED i
    /\ UNCHANGED <<n, m, pre, jbt_ref_pop, pend_flush, first_limit, mem_budget,
                   overflow_checks,
                   out, snapshot>>
    /\ UNCHANGED <<bktVars, cmpVars, solveVars, pureVars>>

\* the worker of piece k_pre calls detect_evil_pmask on a mask on which the
\* call panics: the edge masks overflow and the build checks the shifts
WorkerPanics(k_pre) ==
    /\ i < EvilCut
    /\ \E idx \in DOMAIN pmasks :
          /\ pmasks[idx] \cap pre.masks[k_pre] = {}
          /\ detect_evil_outcome(pmasks[idx] \cup pre.masks[k_pre], n,
                                 overflow_checks).panic

\* one parallel worker: the closure run for piece k_pre.  A panic in a
\* worker is propagated by the parallel iterator and ends the process.
Worker(k_pre) ==
    /\ pc = "vacate"
    /\ k_pre \in DOMAIN jobs
    /\ ~jobs[k_pre].done
    /\ IF WorkerPanics(k_pre)
       THEN pc' = "panic" /\ UNCHANGED jobs
       ELSE jobs' = [jobs EXCEPT ![k_pre] = VacateJob(k_pre)] /\ UNCHANGED pc
    /\ UNCHANGED <<n, m, pre, jbt_ref_pop, pend_flush, first_limit, mem_budget,
                   overflow_checks,
                   i, all_frontiers, out, saturated, pmasks, buckets, snapshot,
                   mem_reports>>
    /\ UNCHANGED <<bktVars, cmpVars, solveVars, pureVars>>

Collected == \A k \in DOMAIN jobs : jobs[k].done
Pending(k) ==
    DOMAIN jobs[k].frontier_map # {} \/ DOMAIN jobs[k].completed_map # {}
\* the job the sequential merge is at
CurJob == SetMin({k \in DOMAIN jobs : Pending(k)})

Without(f, key) == [kk \in DOMAIN f \ {key} |-> f[kk]]

\* append a run of completed codes to the output buckets, grouped by pop-key
RECURSIVE append_by_key(_, _, _, _)
append_by_key(acc, ps, keys, pf) ==
    IF keys = {} THEN acc
    ELSE LET key == CHOOSE kk \in keys : TRUE
             same(pr) == code_pop_key(pr[1], B, jbt_ref_pop) = key
             v == PairsToVecs(SelectSeq(ps, same))
             r == append_completed(acc.out, key, v.codes, v.w, pf)
         IN append_by_key([out |-> r.out, sat |-> acc.sat + r.sat],
                          ps, keys \ {key}, pf)

\* sequential merge, one entry of the current job's frontier_map
MergeFrontier ==
    /\ pc = "vacate"
    /\ Collected
    /\ \E k \in DOMAIN jobs : Pending(k)
    /\ \E key \in DOMAIN jobs[CurJob].frontier_map :
        LET ent == jobs[CurJob].frontier_map[key] IN
        /\ IF key[1] = -1
           THEN LET ps == [x \in DOMAIN ent.codes |-> <<ent.codes[x], ent.w[x]>>]
                    r == append_by_key([out |-> out, sat |-> 0], ps,
                            {code_pop_key(ps[x][1], B, jbt_ref_pop) : x \in DOMAIN ps},
                            pend_flush)
                IN /\ out' = r.out
                   /\ saturated' = saturated + r.sat
                   /\ UNCHANGED all_frontiers
           ELSE LET r == frontier_append(all_frontiers[key[1] + 1], key[2],
                                         ent.codes, ent.w, pend_flush)
                IN /\ all_frontiers' = [all_frontiers EXCEPT ![key[1] + 1] = r.rf]
                   /\ saturated' = saturated + r.sat
                   /\ UNCHANGED out
        /\ jobs' = [jobs EXCEPT ![CurJob].frontier_map = Without(@, key)]
    /\ UNCHANGED <<n, m, pre, jbt_ref_pop, pend_flush, first_limit, mem_budget,
                   overflow_checks,
                   pc, i, pmasks, buckets, snapshot, mem_reports>>
    /\ UNCHANGED <<bktVars, cmpVars, solveVars, pureVars>>

\* sequential merge, one entry of the current job's completed_map
MergeCompleted ==
    /\ pc = "vacate"
    /\ Collected
    /\ \E k \in DOMAIN jobs : Pending(k)
    /\ DOMAIN jobs[CurJob].frontier_map = {}
    /\ \E key \in DOMAIN jobs[CurJob].completed_map :
        LET ent == jobs[CurJob].completed_map[key]
            r == append_completed(out, key, ent.codes, ent.w, pend_flush)
        IN /\ out' = r.out
           /\ saturated' = saturated + r.sat
           /\ jobs' = [jobs EXCEPT ![CurJob].completed_map = Without(@, key)]
    /\ UNCHANGED <<n, m, pre, jbt_ref_pop, pend_flush, first_limit, mem_budget,
                   overflow_checks,
                   pc, i, all_frontiers, pmasks, buckets, snapshot, mem_reports>>
    /\ UNCHANGED <<bktVars, cmpVars, solveVars, pureVars>>

\* end of the loop body
EndRoot ==
    /\ pc = "vacate"
    /\ Collected
    /\ \A k \in DOMAIN jobs : ~Pending(k)
    /\ pc' = "root"
    /\ i' = i + 1
    /\ pmasks' = <<>>
    /\ buckets' = <<>>
    /\ jobs' = <<>>
    /\ UNCHANGED <<n, m, pre, jbt_ref_pop, pend_flush, first_limit, mem_budget,
                   overflow_checks,
                   all_frontiers, out, saturated, snapshot, mem_reports>>
    /\ UNCHANGED <<bktVars, cmpVars, solveVars, pureVars>>

\* after the loop: flush the output buckets and build the snapshot
Finish ==
    /\ pc = "root"
    /\ i = TotalRoots
    /\ LET fl == flush_all(out)
       IN /\ out' = fl.out
          /\ saturated' = saturated + fl.sat
          /\ snapshot' = Some(build_snapshot_from_out(fl.out, B, jbt_ref_pop, n))
    /\ pc' = "done"
    /\ UNCHANGED <<n, m, pre, jbt_ref_pop, pend_flush, first_limit, mem_budget,
                   overflow_checks,
                   i, all_frontiers, pmasks, buckets, jobs, mem_reports>>
    /\ UNCHANGED <<bktVars, cmpVars, solveVars, pureVars>>

\* the other subsystems at rest
IdleBkt == bkt = EmptyBucket /\ bkt_hist = <<>> /\ bkt_last = "none"
IdleCmp == cmp_in = <<>> /\ cmp_out = <<>>
IdleSolve == snap = <<>> /\ tasks = <<>> /\ results = <<>>
IdleCode ==
    cw_m = 0 /\ cw_code = {} /\ cw_set = {} /\ cw_other = None /\ cw_oset = {}
IdleBoard ==
    /\ bd_n = 0 /\ bd_checks = FALSE /\ bd_mask = {}
    /\ bd_evil = <<>> /\ bd_seed = {} /\ bd_fill = <<>>
IdleLoad == ld_in = <<>> /\ ld_out = <<>>
IdlePure == IdleCode /\ IdleBoard /\ IdleLoad
IdleEnum ==
    /\ n = 0 /\ m = 0 /\ pre = <<>> /\ jbt_ref_pop = <<>>
    /\ pend_flush = 0 /\ first_limit = None /\ mem_budget = FALSE
    /\ overflow_checks = FALSE /\ mem_reports = 0
    /\ pc = "idle" /\ i = 0 /\ all_frontiers = <<>> /\ out = <<>>
    /\ saturated = 0 /\ pmasks = <<>> /\ buckets = <<>> /\ jobs = <<>>
    /\ snapshot = None

Init == InitEnum /\ IdleBkt /\ IdleCmp /\ IdleSolve /\ IdlePure

NextEnum ==
    \/ Enter
    \/ BeginRoot
    \/ \E k_pre \in DOMAIN jobs : Worker(k_pre)
    \/ MergeFrontier
    \/ MergeCompleted
    \/ EndRoot
    \/ Finish

Next == NextEnum

Spec == Init /\ [][Next]_vars

(***************************************************************************)
(* One AOBucket under arbitrary callers: any batches, any flush threshold, *)
(* flushes at any time.  bkt_hist keeps what was appended: the number of   *)
(* entries and, per code, the sum of their weights.                        *)
(***************************************************************************)
MaxBatch == 2
MaxAppended == 4

\* code words on both sides of bit 64, so that the order is the u128 order
BktCodes == { {1}, {64}, {0, 127} }
BktWeights == {1, WEIGHT_MAX}
BktPairs == BktCodes \X BktWeights
Batches == UNION {[1..len -> BktPairs] : len \in 1..MaxBatch}

InitBucket ==
    /\ IdleEnum /\ IdleCmp /\ IdleSolve /\ IdlePure
    /\ bkt = EmptyBucket
    /\ bkt_hist = [n |-> 0, sum |-> [c \in BktCodes |-> 0]]
    /\ bkt_last = "none"

AppendBatch ==
    \E batch \in Batches, pf \in PendFlushChoices :
        /\ bkt_hist.n + Len(batch) <= MaxAppended
        /\ LET codes == [x \in DOMAIN batch |-> batch[x][1]]
               w == [x \in DOMAIN batch |-> batch[x][2]]
               r == append_batch(bkt, codes, w, pf)
           IN /\ bkt' = r.b
              /\ bkt_last' = IF Len(bkt.pend_codes) + Len(codes) >= pf
                              THEN "flush" ELSE "append"
              /\ bkt_hist' =
                    [n |-> bkt_hist.n + Len(batch),
                     sum |-> [c \in BktCodes |->
                                bkt_hist.sum[c] +
                                SumSeq([x \in DOMAIN batch |->
                                          IF codes[x] = c THEN w[x] ELSE 0])]]
        /\ UNCHANGED <<enumVars, cmpVars, solveVars, pureVars>>

Flush ==
    /\ bkt' = flush(bkt).b
    /\ bkt_last' = "flush"
    /\ UNCHANGED bkt_hist
    /\ UNCHANGED <<enumVars, cmpVars, solveVars, pureVars>>

NextBucket ==
    \/ AppendBatch
    \/ Flush

SpecBucket == InitBucket /\ [][NextBucket]_vars

WordsAscending(s) == \A x \in 1..(Len(s) - 1) : WordLess(s[x], s[x + 1])

\* C9: after every flush, whatever batches were appended before and in
\* whatever order, the committed codes are strictly ascending as 128-bit
\* values (hence unique), there are as many weights as codes, and the
\* pending buffers are empty.
C9_FlushCommitsAscendingUnique ==
    bkt_last = "flush" =>
        /\ WordsAscending(bkt.codes)
        /\ \A x \in DOMAIN bkt.codes, y \in DOMAIN bkt.codes :
                x # y => bkt.codes[x] # bkt.codes[y]
        /\ Len(bkt.codes) = Len(bkt.weights)
        /\ bkt.pend_codes = <<>> /\ bkt.pend_w = <<>>

\* a flush that merged a repeated code and committed three distinct codes
C9_Witness ==
    /\ bkt_last = "flush"
    /\ Len(bkt.codes) = 3
    /\ bkt_hist.n = 4

\* the weight committed for code c, 0 when c is not committed
CommittedWeight(bk, c) ==
    SumSeq([x \in DOMAIN bk.codes |-> IF bk.codes[x] = c THEN bk.weights[x] ELSE 0])

\* the weight held for code c, committed and pending
HeldWeight(bk, c) ==
    CommittedWeight(bk, c) +
    SumSeq([x \in DOMAIN bk.pend_codes |->
              IF bk.pend_codes[x] = c THEN bk.pend_w[x] ELSE 0])

\* C23: after every flush, hence after the final one, the committed weight
\* of each code is the smaller of Weight::MAX and the sum of all weights ever
\* appended for it, whatever the batches, their order and the thresholds
\* were; and a flush always returns a bucket, counting one saturation for
\* each code whose sum exceeds Weight::MAX and doing nothing else about it.
C23_CommittedWeightIsClampedSum ==
    /\ bkt_last = "flush" =>
          \A c \in BktCodes :
              CommittedWeight(bkt, c) = Min(bkt_hist.sum[c], WEIGHT_MAX)
    /\ LET r == flush(bkt)
       IN /\ r.b.pend_codes = <<>> /\ r.b.pend_w = <<>>
          /\ \A c \in BktCodes :
                CommittedWeight(r.b, c) = Min(HeldWeight(bkt, c), WEIGHT_MAX)
          /\ bkt.pend_codes # <<>> =>
                r.sat = Cardinality({c \in BktCodes : HeldWeight(bkt, c) > WEIGHT_MAX})

\* a flush after four appends that left one code clamped, with more than
\* twice Weight::MAX appended for it, and another code below the clamp
C23_Witness ==
    /\ bkt_last = "flush" /\ bkt_hist.n = 4
    /\ \E c \in BktCodes :
          bkt_hist.sum[c] > 2 * WEIGHT_MAX /\ CommittedWeight(bkt, c) = WEIGHT_MAX
    /\ \E c \in BktCodes : CommittedWeight(bkt, c) \in 1..(WEIGHT_MAX - 1)

(***************************************************************************)
(* The compat table of a snapshot: taken from the archive and covered, or  *)
(* built from the component masks.  A table is a function from the pops it *)
(* has to <<key1, key2>>.  A u16 mask is an integer below 2^16.            *)
(***************************************************************************)
Bits(v) == {t \in 0..16 : BitOf(v, t) = 1}

contiguous_overlap(a, b) ==
    LET o == Bits(a) \cap Bits(b)
    IN IF o = {} THEN FALSE
       ELSE LET s == SumOver([t \in o |-> 2^(t - SetMin(o))], o)
            IN Bits(s) \cap Bits(s + 1) = {}

determine_compatibility(c1, c2) ==
    LET nonzero(x) == x # 0
        a0 == SelectSeq(c1, nonzero)
        b0 == SelectSeq(c2, nonzero)
        a == IF Len(a0) <= Len(b0) THEN a0 ELSE b0
        b == IF Len(a0) <= Len(b0) THEN b0 ELSE a0
    IN CASE Len(a) = 1 /\ Len(b) = 3 ->
                /\ contiguous_overlap(a[1], b[3])
                /\ contiguous_overlap(a[1], b[2])
                /\ contiguous_overlap(a[1], b[1])
         [] Len(a) = 2 /\ Len(b) = 2 ->
                /\ contiguous_overlap(a[2], b[2])
                /\ contiguous_overlap(a[1], b[1])
                /\ contiguous_overlap(a[2], b[1]) # contiguous_overlap(a[1], b[2])
         [] Len(a) = 1 /\ Len(b) = 2 ->
                contiguous_overlap(a[1], b[2]) /\ contiguous_overlap(a[1], b[1])
         [] Len(a) = 1 /\ Len(b) = 1 -> contiguous_overlap(a[1], b[1])
         [] OTHER -> FALSE

EmptyKeys == << <<>>, <<>> >>

\* [panic |-> an index ran past jbt_ref_comps, keys |-> <<k1, k2>>]
compat_for_pop_pair(j_pop, j_comps, n_total, p) ==
    LET q == n_total - p
        with(pp) == LET has(j) == j_pop[j + 1] = pp
                    IN SelectSeq([x \in 1..Len(j_pop) |-> x - 1], has)
        idxs_p == with(p)
        idxs_q == with(q)
        cell(x, y) ==
            IF determine_compatibility(j_comps[idxs_p[x] + 1], j_comps[idxs_q[y] + 1])
            THEN << <<idxs_p[x], idxs_q[y]>> >> ELSE <<>>
    IN IF p <= 0 \/ q <= 0 \/ p >= n_total \/ q >= n_total
       THEN [panic |-> FALSE, keys |-> EmptyKeys]
       ELSE IF idxs_p = <<>> \/ idxs_q = <<>>
       THEN [panic |-> FALSE, keys |-> EmptyKeys]
       ELSE IF \E j \in Range(idxs_p) \cup Range(idxs_q) : j >= Len(j_comps)
       THEN [panic |-> TRUE, keys |-> EmptyKeys]
       ELSE LET hits == Concat([x \in DOMAIN idxs_p |->
                            Concat([y \in DOMAIN idxs_q |-> cell(x, y)])])
            IN [panic |-> FALSE,
                keys |-> << [x \in DOMAIN hits |-> hits[x][1]],
                           [x \in DOMAIN hits |-> hits[x][2]] >>]

\* [panic |-> ..., map |-> the table].  p and N - p differ for every p the
\* loop visits, and no two visits write the same key.
build_compat_map(j_pop, j_comps, n_total) ==
    LET half == 1..((n_total - 1) \div 2)
        pair(p) == compat_for_pop_pair(j_pop, j_comps, n_total, p)
        mid == IF n_total % 2 = 0 THEN {n_total \div 2} ELSE {}
    IN [panic |-> \E p \in half : pair(p).panic,
        map |-> [p \in half \cup {n_total - q : q \in half} \cup mid
                        \cup 1..(n_total - 1) |->
                    IF p \in half THEN pair(p).keys
                    ELSE IF (n_total - p) \in half
                    THEN <<pair(n_total - p).keys[2], pair(n_total - p).keys[1]>>
                    ELSE EmptyKeys]]

\* The keys are visited in the hash map's order.  A visit of p writes only
\* N - p, only if it is missing, and reads only c[p], which the archive
\* gave; so every order ends in the same table.
cover_and_symmetrize_compat(c, n_total) ==
    LET base == DOMAIN c
        mirrored == [q \in base \cup {n_total - p : p \in base} |->
                        IF q \in base THEN c[q]
                        ELSE <<c[n_total - q][2], c[n_total - q][1]>>]
    IN [p \in DOMAIN mirrored \cup 1..(n_total - 1) |->
            IF p \in DOMAIN mirrored THEN mirrored[p] ELSE EmptyKeys]

\* the jbt_ref_pop / jbt_ref_comps arrays an archive may hold
CompMasks == {<<1, 0, 0>>, <<2, 0, 0>>, <<3, 4, 0>>}
PopArrays(nn) ==
    IF nn = 2 THEN {<<1, 1>>, <<1>>}
    ELSE {<<1, 3>>, <<1, 3, 3>>, <<2, 2>>, <<1, 2, 3>>}
CompArrays(len) == {<<>>} \cup [1..len -> CompMasks]

\* the compat arrays an archive may hold for pop p
ArchiveKeys(nn, p) ==
    IF nn = 2 THEN {EmptyKeys, << <<0>>, <<1>> >>, << <<0, 1>>, <<1, 0>> >>}
    ELSE IF p = 1 THEN {EmptyKeys, << <<0, 3>>, <<2, 1>> >>}
    ELSE IF p = 3 THEN {EmptyKeys, << <<2, 1>>, <<0, 3>> >>, << <<1, 2>>, <<3, 0>> >>}
    ELSE {EmptyKeys, << <<4>>, <<5>> >>, << <<4, 5>>, <<5, 4>> >>}
Archives(nn) ==
    UNION {{c \in [K -> UNION {ArchiveKeys(nn, p) : p \in K}] :
                \A p \in K : c[p] \in ArchiveKeys(nn, p)} :
            K \in SUBSET (1..(nn - 1))}

InitCompat ==
    /\ IdleEnum /\ IdleBkt /\ IdleSolve /\ IdlePure
    /\ \E nn \in BoardSizes :
        \E j_pop \in PopArrays(nn) :
        \E j_comps \in CompArrays(Len(j_pop)) :
        \E archive \in {None} \cup {Some(c) : c \in Archives(nn)} :
            cmp_in = [n_total |-> nn, jbt_ref_pop |-> j_pop,
                      jbt_ref_comps |-> j_comps, archive |-> archive]
    /\ cmp_out = [status |-> "none", compat |-> <<>>]

\* enumerate_to_snapshot_from_npz, the archive holding a compat table
LoadCompat ==
    /\ cmp_out.status = "none"
    /\ cmp_in.archive # None
    /\ cmp_out' = [status |-> "ok",
                   compat |-> cover_and_symmetrize_compat(cmp_in.archive[1],
                                                          cmp_in.n_total)]
    /\ UNCHANGED cmp_in
    /\ UNCHANGED <<enumVars, bktVars, solveVars, pureVars>>

\* enumerate_to_snapshot_from_npz, the archive holding none
BuildCompat ==
    /\ cmp_out.status = "none"
    /\ cmp_in.archive = None
    /\ LET r == build_compat_map(cmp_in.jbt_ref_pop, cmp_in.jbt_ref_comps,
                                 cmp_in.n_total)
       IN cmp_out' = IF r.panic THEN [status |-> "panic", compat |-> <<>>]
                     ELSE [status |-> "ok", compat |-> r.map]
    /\ UNCHANGED cmp_in
    /\ UNCHANGED <<enumVars, bktVars, solveVars, pureVars>>

NextCompat ==
    \/ LoadCompat
    \/ BuildCompat

SpecCompat == InitCompat /\ [][NextCompat]_vars

swap(keys) == <<keys[2], keys[1]>>

\* C8 as stated: in every returned snapshot, the table taken from the
\* archive or built locally, every p in 1..N-1 has compat[p] and
\* compat[N-p], and compat[N-p] is compat[p] with its two arrays swapped.
C8_CompatCoveredAndSymmetric ==
    cmp_out.status = "ok" =>
        \A p \in 1..(cmp_in.n_total - 1) :
            /\ p \in DOMAIN cmp_out.compat
            /\ (cmp_in.n_total - p) \in DOMAIN cmp_out.compat
            /\ cmp_out.compat[cmp_in.n_total - p] = swap(cmp_out.compat[p])

(***************************************************************************)
(* Matching: the pair solver and its driver.  Buckets are counted from 1   *)
(* in a snapshot, rows from 0 in a bucket; weights are small integers,     *)
(* which f64 holds exactly.                                                *)
(***************************************************************************)
key_sorted_vec(key) == sort_unstable(key)
\* compat_key_sorted without the sort
compat_key_unsorted(key, n_total) == [x \in DOMAIN key |-> n_total - key[x]]

compat_key_sorted(key, n_total) ==
    sort_unstable([x \in DOMAIN key |-> n_total - key[x]])

\* a later bucket of the same key replaces an earlier one
build_key_to_idx(bs) ==
    [k \in {key_sorted_vec(bs[x].key) : x \in DOMAIN bs} |->
        SetMax({x \in DOMAIN bs : key_sorted_vec(bs[x].key) = k})]

Times(s, v) == Cardinality({x \in DOMAIN s : s[x] = v})
RowsOf(bucket) == 0..(n_rows(bucket) - 1)
PiecesOf(bucket) == UNION {Range(row_slice(bucket, r)) : r \in RowsOf(bucket)}

\* x -> the rows holding x, ascending, a row once per occurrence of x in it
build_rows_by_jbt(bucket) ==
    [x \in PiecesOf(bucket) |->
        Concat([r1 \in 1..n_rows(bucket) |->
                  [c \in 1..Times(row_slice(bucket, r1 - 1), x) |-> r1 - 1]])]

\* [panic |-> compat lacks the pop looked up, or key2 is shorter than key1,
\*  map |-> j -> its candidates present in bucket2, ascending, deduplicated]
precompute_candidates_for_bucket1(bucket1, rows_by_jbt, j_pop, n_total, compat) ==
    LET all_j == {j \in PiecesOf(bucket1) : j_pop[j + 1] # 0}
        big(j) == j_pop[j + 1] > n_total \div 2
        at(j) == IF big(j) THEN n_total - j_pop[j + 1] ELSE j_pop[j + 1]
        k1(j) == IF big(j) THEN compat[at(j)][2] ELSE compat[at(j)][1]
        k2(j) == IF big(j) THEN compat[at(j)][1] ELSE compat[at(j)][2]
        hits(j) == {x \in DOMAIN k1(j) : k1(j)[x] = j}
        panic == \E j \in all_j :
                    \/ at(j) \notin DOMAIN compat
                    \/ \E x \in hits(j) : x > Len(k2(j))
    IN [panic |-> panic,
        map |-> IF panic THEN <<>>
                ELSE [j \in all_j |->
                        SeqOfSet({k2(j)[x] : x \in hits(j)} \cap DOMAIN rows_by_jbt)]]

pop_mult(key, p) == Times(key, p)
cands_of(cand_map, j) == IF j \in DOMAIN cand_map THEN cand_map[j] ELSE <<>>
rows_of(rows_by_jbt, x) == IF x \in DOMAIN rows_by_jbt THEN rows_by_jbt[x] ELSE <<>>

\* the classification loop of a row: dead when a non-neutral piece has no
\* candidate, else its positions split by the multiplicity of their pop
row_dead(row, j_pop, cand_map) ==
    \E pos \in DOMAIN row :
        j_pop[row[pos] + 1] # 0 /\ cands_of(cand_map, row[pos]) = <<>>
unique_positions(row, key, j_pop) ==
    LET uniq(pos) == j_pop[row[pos] + 1] # 0 /\ pop_mult(key, j_pop[row[pos] + 1]) <= 1
    IN SelectSeq([pos \in DOMAIN row |-> pos], uniq)
colliding_positions(row, key, j_pop) ==
    LET coll(pos) == j_pop[row[pos] + 1] # 0 /\ pop_mult(key, j_pop[row[pos] + 1]) > 1
    IN SelectSeq([pos \in DOMAIN row |-> pos], coll)

MaskSum(mask, eff) ==
    SumOver([r \in DOMAIN mask |-> IF mask[r] THEN eff[r] ELSE 0], DOMAIN mask)

\* the unique-pop pass: [alive, mask, eff] after the positions ps
RECURSIVE unique_pass(_, _, _, _, _, _)
unique_pass(ps, row, mask, eff, rows_by_jbt, cand_map) ==
    IF ps = <<>> THEN [alive |-> TRUE, mask |-> mask, eff |-> eff]
    ELSE LET cands == cands_of(cand_map, row[Head(ps)])
             counts == [r \in DOMAIN mask |->
                          SumSeq([x \in DOMAIN cands |->
                                    Times(rows_of(rows_by_jbt, cands[x]), r)])]
             mask1 == [r \in DOMAIN mask |-> mask[r] /\ counts[r] > 0]
             eff1 == [r \in DOMAIN mask |->
                        IF mask1[r] THEN eff[r] * counts[r] ELSE eff[r]]
         IN IF \A r \in DOMAIN mask : ~mask1[r]
            THEN [alive |-> FALSE, mask |-> mask1, eff |-> eff1]
            ELSE unique_pass(Tail(ps), row, mask1, eff1, rows_by_jbt, cand_map)

\* the scan finding no shared candidate, whatever the candidates
cands_overlap_never(rem, seen, cand_map) == FALSE

\* the scan for a candidate shared by two colliding positions
RECURSIVE cands_overlap(_, _, _)
cands_overlap(rem, seen, cand_map) ==
    IF rem = <<>> THEN FALSE
    ELSE LET cands == cands_of(cand_map, Head(rem))
         IN IF Range(cands) \cap seen # {} THEN TRUE
            ELSE cands_overlap(Tail(rem), seen \cup Range(cands), cand_map)

RECURSIVE ProdSeq(_)
ProdSeq(s) == IF s = <<>> THEN 1 ELSE Head(s) * ProdSeq(Tail(s))

\* the disjoint fast path
disjoint_total(rem, mask, eff, rows_by_jbt, cand_map) ==
    LET cnt(j, r) == Cardinality({x \in Range(cands_of(cand_map, j)) :
                                    r \in Range(rows_of(rows_by_jbt, x))})
    IN SumOver([r \in DOMAIN mask |->
                  IF mask[r]
                  THEN eff[r] * ProdSeq([y \in DOMAIN rem |-> cnt(rem[y], r)])
                  ELSE 0], DOMAIN mask)

\* rec with the used_x test left out
RECURSIVE rec_no_used(_, _, _, _, _, _)
rec_no_used(idxs, mask, eff, rows_by_jbt, cand_map, used_x) ==
    LET viable(j) ==
            LET good(x) == \E q \in DOMAIN rows_of(rows_by_jbt, x) :
                                mask[rows_of(rows_by_jbt, x)[q]]
            IN SelectSeq(cands_of(cand_map, j), good)
    IN IF \E pos \in DOMAIN idxs : viable(idxs[pos]) = <<>> THEN 0
       ELSE IF idxs = <<>> THEN MaskSum(mask, eff)
       ELSE LET least == SetMin({Len(viable(idxs[pos])) : pos \in DOMAIN idxs})
                best_pos == SetMin({pos \in DOMAIN idxs : Len(viable(idxs[pos])) = least})
                best_j == idxs[best_pos]
                best_list == viable(best_j)
                other(j) == j # best_j
                rest == SelectSeq(idxs, other)
                branch(x) ==
                    LET new_mask == [r \in DOMAIN mask |->
                                        mask[r] /\ r \in Range(rows_of(rows_by_jbt, x))]
                    IN IF \A r \in DOMAIN mask : ~new_mask[r] THEN 0
                       ELSE rec_no_used(rest, new_mask, eff, rows_by_jbt, cand_map, used_x)
            IN SumSeq([y \in DOMAIN best_list |-> branch(best_list[y])])

\* the branch-and-bound fallback.  The pivot is the first position, in row
\* order, with the fewest viable candidates: the scan keeps a position only
\* when it is strictly better and stops at the first with one candidate.
RECURSIVE rec(_, _, _, _, _, _)
rec(idxs, mask, eff, rows_by_jbt, cand_map, used_x) ==
    LET viable(j) ==
            LET good(x) == /\ x \notin used_x
                           /\ \E q \in DOMAIN rows_of(rows_by_jbt, x) :
                                mask[rows_of(rows_by_jbt, x)[q]]
            IN SelectSeq(cands_of(cand_map, j), good)
    IN IF \E pos \in DOMAIN idxs : viable(idxs[pos]) = <<>> THEN 0
       ELSE IF idxs = <<>> THEN MaskSum(mask, eff)
       ELSE LET least == SetMin({Len(viable(idxs[pos])) : pos \in DOMAIN idxs})
                best_pos == SetMin({pos \in DOMAIN idxs : Len(viable(idxs[pos])) = least})
                best_j == idxs[best_pos]
                best_list == viable(best_j)
                other(j) == j # best_j
                rest == SelectSeq(idxs, other)
                branch(x) ==
                    LET new_mask == [r \in DOMAIN mask |->
                                        mask[r] /\ r \in Range(rows_of(rows_by_jbt, x))]
                    IN IF \A r \in DOMAIN mask : ~new_mask[r] THEN 0
                       ELSE rec(rest, new_mask, eff, rows_by_jbt, cand_map, used_x \cup {x})
            IN SumSeq([y \in DOMAIN best_list |-> branch(best_list[y])])

\* which path of subtotal_for_pair row r1 of bucket1 takes
row_strategy(bucket1, bucket2, r1, j_pop, rows_by_jbt, cand_map) ==
    LET row == row_slice(bucket1, r1)
        mask0 == [r \in RowsOf(bucket2) |-> TRUE]
        eff0 == [r \in RowsOf(bucket2) |-> bucket2.weights[r + 1]]
        u == unique_pass(unique_positions(row, bucket1.key, j_pop), row,
                         mask0, eff0, rows_by_jbt, cand_map)
        cp == colliding_positions(row, bucket1.key, j_pop)
        rem == [y \in DOMAIN cp |-> row[cp[y]]]
    IN IF row_dead(row, j_pop, cand_map) THEN "dead"
       ELSE IF ~u.alive THEN "dead"
       ELSE IF rem = <<>> THEN "unique"
       ELSE IF ~cands_overlap(rem, {}, cand_map) THEN "disjoint"
       ELSE "bnb"

\* what row r1 of bucket1 adds to the subtotal, before its weight
row_total(bucket1, bucket2, r1, j_pop, rows_by_jbt, cand_map) ==
    LET row == row_slice(bucket1, r1)
        mask0 == [r \in RowsOf(bucket2) |-> TRUE]
        eff0 == [r \in RowsOf(bucket2) |-> bucket2.weights[r + 1]]
        u == unique_pass(unique_positions(row, bucket1.key, j_pop), row,
                         mask0, eff0, rows_by_jbt, cand_map)
        cp == colliding_positions(row, bucket1.key, j_pop)
        rem == [y \in DOMAIN cp |-> row[cp[y]]]
        how == row_strategy(bucket1, bucket2, r1, j_pop, rows_by_jbt, cand_map)
    IN CASE how = "dead" -> 0
         [] how = "unique" -> MaskSum(u.mask, u.eff)
         [] how = "disjoint" -> disjoint_total(rem, u.mask, u.eff, rows_by_jbt, cand_map)
         [] OTHER -> rec(rem, u.mask, u.eff, rows_by_jbt, cand_map, {})

subtotal_for_pair(bucket1, bucket2, j_pop, rows_by_jbt, cand_map) ==
    IF bucket1.key = <<>>
    THEN SumSeq(bucket1.weights) * SumSeq(bucket2.weights)
    ELSE SumSeq([r1 \in 1..n_rows(bucket1) |->
                    bucket1.weights[r1] *
                    row_total(bucket1, bucket2, r1 - 1, j_pop, rows_by_jbt, cand_map)])

\* the factor of a pair whatever its buckets
pair_factor_always_two(pair) == 2

\* 2 for a pair of distinct buckets, 1 for a bucket paired with itself
pair_factor(pair) == IF pair[1] # pair[2] THEN 2 ELSE 1

\* task discovery: the buckets in order, each unordered pair once, the
\* bucket with fewer rows on the left
RECURSIVE discover(_, _, _, _)
discover(s, pos, seen, acc) ==
    IF pos > Len(s.buckets) THEN acc
    ELSE LET key_to_idx == build_key_to_idx(s.buckets)
             want == compat_key_sorted(key_sorted_vec(s.buckets[pos].key), s.n_total)
         IN IF want \notin DOMAIN key_to_idx THEN discover(s, pos + 1, seen, acc)
            ELSE LET j == key_to_idx[want]
                     pair == <<Min(pos, j), Max(pos, j)>>
                     small == n_rows(s.buckets[pair[1]]) <= n_rows(s.buckets[pair[2]])
                 IN IF pair \in seen THEN discover(s, pos + 1, seen, acc)
                    ELSE discover(s, pos + 1, seen \cup {pair},
                            Append(acc,
                                [left |-> IF small THEN pair[1] ELSE pair[2],
                                 right |-> IF small THEN pair[2] ELSE pair[1],
                                 factor |-> pair_factor(pair)]))

task_cost(s, t) ==
    n_rows(s.buckets[t.left]) * n_rows(s.buckets[t.right])
        * Max(1, Len(s.buckets[t.left].key))

\* tasks.sort_by_key(Reverse(cost)): stable, the heaviest first
RECURSIVE sort_by_cost(_, _)
sort_by_cost(s, ts) ==
    IF ts = <<>> THEN <<>>
    ELSE LET top == SetMax({task_cost(s, ts[x]) : x \in DOMAIN ts})
             at == SetMin({x \in DOMAIN ts : task_cost(s, ts[x]) = top})
         IN <<ts[at]>> \o sort_by_cost(s, [y \in 1..(Len(ts) - 1) |->
                                            IF y < at THEN ts[y] ELSE ts[y + 1]])

\* the body of the parallel map for one task
solve_task(s, t) ==
    LET bl == s.buckets[t.left]
        br == s.buckets[t.right]
        rows_by_jbt == build_rows_by_jbt(br)
        cm == precompute_candidates_for_bucket1(bl, rows_by_jbt, s.jbt_ref_pop,
                                                s.n_total, s.compat)
    IN [panic |-> cm.panic,
        key_left |-> bl.key, key_right |-> br.key,
        rows1 |-> n_rows(bl), rows2 |-> n_rows(br),
        subtotal |-> IF cm.panic THEN 0
                     ELSE subtotal_for_pair(bl, br, s.jbt_ref_pop, rows_by_jbt, cm.map)
                            * t.factor,
        factor |-> t.factor]

\* snapshots handed to the driver: N = 4, six pieces, one to three buckets
\* of different keys, rows that share their bucket's key
MaxRowWeight == 2
SolveN == SetMax(BoardSizes)
SolvePops == <<1, 1, 3, 3, 2, 2>>
RowLists ==
    { << <<0, 2>> >>, << <<0, 2>>, <<1, 3>> >>, << <<1, 2>>, <<0, 3>> >>,
      << <<4, 5>> >>,
      << <<0, 4>> >>, << <<0, 4>>, <<1, 5>> >>,
      << <<2, 4>> >>, << <<3, 5>> >>, << <<2, 4>>, <<3, 5>> >>,
      << <<0, 1, 4>> >>,
      << <<2, 3, 5>> >>, << <<2, 3, 4>>, <<2, 3, 5>> >>,
      << <<>> >> }
MakeBucket(rows, w) ==
    [rows_data |-> Concat(rows),
     indptr |-> <<0>> \o prefix_sums([r \in DOMAIN rows |-> Len(rows[r])], 0),
     weights |-> w,
     key |-> sort_unstable([x \in DOMAIN rows[1] |-> SolvePops[rows[1][x] + 1]])]
SolveBuckets ==
    UNION {{MakeBucket(rows, w) : w \in [1..Len(rows) -> 1..MaxRowWeight]} :
            rows \in RowLists}

Keyed(key) == {a \in SolveBuckets : a.key = key}

\* compat tables: an archive's table after cover_and_symmetrize_compat, or
\* the table built from component masks
SolveArchives ==
    LET p1 == { << <<0, 0, 1, 1>>, <<2, 3, 2, 3>> >>, << <<0, 1>>, <<2, 3>> >>,
                << <<0, 0>>, <<2, 3>> >> }
        p2 == { << <<4, 4, 5, 5>>, <<4, 5, 4, 5>> >>, << <<4, 5>>, <<5, 4>> >>,
                << <<4, 5>>, <<4, 5>> >>, << <<4>>, <<5>> >> }
    IN {(1 :> a) : a \in p1} \cup
       {(1 :> a) @@ (2 :> c) : a \in p1, c \in p2} \cup
       {(1 :> << <<0, 0, 1, 1>>, <<2, 3, 2, 3>> >>) @@ (3 :> << <<2>>, <<0>> >>)}
SolveComps ==
    { [x \in 1..6 |-> <<1, 0, 0>>],
      <<<<1, 0, 0>>, <<2, 0, 0>>, <<1, 0, 0>>, <<2, 0, 0>>, <<1, 0, 0>>, <<1, 0, 0>>>> }
SolveCompats ==
    {cover_and_symmetrize_compat(c, SolveN) : c \in SolveArchives} \cup
    {build_compat_map(SolvePops, comps, SolveN).map : comps \in SolveComps}

InitSolve ==
    /\ IdleEnum /\ IdleBkt /\ IdleCmp /\ IdlePure
    /\ \E bs \in {<<a>> : a \in SolveBuckets} \cup
                 {<<a, c>> : a \in SolveBuckets, c \in SolveBuckets} \cup
                 {<<a, c, d>> : a \in Keyed(<<1, 1, 2>>), c \in Keyed(<<2, 3, 3>>),
                                d \in Keyed(<<2, 2>>)} :
       \E compat \in SolveCompats :
            /\ \A x \in DOMAIN bs, y \in DOMAIN bs : x # y => bs[x].key # bs[y].key
            /\ snap = [buckets |-> bs, jbt_ref_pop |-> SolvePops,
                       n_total |-> SolveN, compat |-> compat]
    /\ tasks = None
    /\ results = <<>>

\* run_all_pairs_parallel up to the parallel map
BuildTasks ==
    /\ tasks = None
    /\ LET ts == sort_by_cost(snap, discover(snap, 1, {}, <<>>))
       IN /\ tasks' = Some(ts)
          /\ results' = [k \in DOMAIN ts |-> None]
    /\ UNCHANGED snap
    /\ UNCHANGED <<enumVars, bktVars, cmpVars, pureVars>>

\* one task of the parallel map; collect() keeps the tasks' order
SolveTask(k) ==
    /\ tasks # None
    /\ results[k] = None
    /\ results' = [results EXCEPT ![k] = Some(solve_task(snap, tasks[1][k]))]
    /\ UNCHANGED <<snap, tasks>>
    /\ UNCHANGED <<enumVars, bktVars, cmpVars, pureVars>>

NextSolve ==
    \/ BuildTasks
    \/ \E k \in DOMAIN results : SolveTask(k)

SpecSolve == InitSolve /\ [][NextSolve]_vars

\* Omega, once every task has returned
AllSolved == tasks # None /\ \A k \in DOMAIN results : results[k] # None
Omega == SumSeq([k \in DOMAIN results |-> results[k][1].subtotal])

\* the candidates the driver derives for bucket a against bucket b
CandsFor(a, b) ==
    precompute_candidates_for_bucket1(snap.buckets[a], build_rows_by_jbt(snap.buckets[b]),
                                      snap.jbt_ref_pop, snap.n_total, snap.compat).map
\* subtotal_for_pair with bucket a as L and bucket b as R
SubtotalLR(a, b) ==
    subtotal_for_pair(snap.buckets[a], snap.buckets[b], snap.jbt_ref_pop,
                      build_rows_by_jbt(snap.buckets[b]), CandsFor(a, b))

\* the injective assignments of the non-neutral positions of row1 to pieces
\* of row2, each position to one of its piece's candidates
InjectiveAssignments(row1, row2, cand_map) ==
    LET P == {pos \in DOMAIN row1 : snap.jbt_ref_pop[row1[pos] + 1] # 0}
    IN {f \in [P -> Range(row2)] :
            /\ \A a \in P, c \in P : a # c => f[a] # f[c]
            /\ \A a \in P : f[a] \in Range(cands_of(cand_map, row1[a]))}

WeightedCount(a, b) ==
    LET bl == snap.buckets[a]
        br == snap.buckets[b]
        cand_map == CandsFor(a, b)
    IN SumSeq([r1 \in 1..n_rows(bl) |->
          SumSeq([r2 \in 1..n_rows(br) |->
            bl.weights[r1] * br.weights[r2] *
            Cardinality(InjectiveAssignments(row_slice(bl, r1 - 1),
                                             row_slice(br, r2 - 1), cand_map))])])

StrategiesOf(a, b) ==
    {row_strategy(snap.buckets[a], snap.buckets[b], r1, snap.jbt_ref_pop,
                  build_rows_by_jbt(snap.buckets[b]), CandsFor(a, b)) :
        r1 \in RowsOf(snap.buckets[a])}

Solved(k) == tasks # None /\ k \in DOMAIN results /\ results[k] # None

\* C4: for every bucket pair (L, R) with non-empty L.key, subtotal_for_pair
\* returns the sum over the row pairs of w1*w2 times the number of injective
\* assignments of L's non-neutral positions to candidate pieces of the R
\* row, whichever of the three strategies a row takes; the driver's results
\* are that sum times the factor.
C4_SubtotalIsWeightedInjectiveCount ==
    /\ \A a \in DOMAIN snap.buckets, b \in DOMAIN snap.buckets :
            snap.buckets[a].key # <<>> => SubtotalLR(a, b) = WeightedCount(a, b)
    /\ \A k \in DOMAIN results :
            (Solved(k) /\ results[k][1].key_left # <<>>) =>
                results[k][1].subtotal =
                    tasks[1][k].factor * WeightedCount(tasks[1][k].left, tasks[1][k].right)

\* two solved pairs with a positive subtotal, one whose row went through the
\* unique pass and then the branch-and-bound fallback, one that took the
\* disjoint product
C4_Witness ==
    /\ AllSolved
    /\ \E k \in DOMAIN results :
        /\ results[k][1].subtotal > 0
        /\ "bnb" \in StrategiesOf(tasks[1][k].left, tasks[1][k].right)
        /\ Len(results[k][1].key_left) = 3
    /\ \E k \in DOMAIN results :
        /\ results[k][1].subtotal > 0
        /\ "disjoint" \in StrategiesOf(tasks[1][k].left, tasks[1][k].right)

\* the pairs of C5: L.key = [2,2] with one row [j0, j1], R with one row of
\* two pieces, both candidates of j0 and of j1
C5_Case(k) ==
    LET bl == snap.buckets[tasks[1][k].left]
        br == snap.buckets[tasks[1][k].right]
        cm == CandsFor(tasks[1][k].left, tasks[1][k].right)
    IN /\ bl.key = <<2, 2>> /\ n_rows(bl) = 1 /\ n_rows(br) = 1
       /\ Len(row_slice(br, 0)) = 2
       /\ \A pos \in 1..2 :
            Range(row_slice(br, 0)) \subseteq Range(cands_of(cm, row_slice(bl, 0)[pos]))

\* C5: in the overlapping fallback no two colliding positions take the same
\* piece: for L.key = [2,2], one row [j0, j1], and R's one row of two pieces
\* that are candidates of both, 2 assignments are counted, not 4, and the
\* subtotal is 2*w1*w2.
C5_OverlapCountsTwo ==
    \A k \in DOMAIN results :
        (Solved(k) /\ C5_Case(k)) =>
            /\ StrategiesOf(tasks[1][k].left, tasks[1][k].right) = {"bnb"}
            /\ results[k][1].subtotal =
                  tasks[1][k].factor * 2
                    * snap.buckets[tasks[1][k].left].weights[1]
                    * snap.buckets[tasks[1][k].right].weights[1]

C5_Witness ==
    \E k \in DOMAIN results :
        /\ Solved(k) /\ C5_Case(k)
        /\ results[k][1].subtotal = 2 * 2 * 2

\* C6 as stated: for every complementary pair the driver finds, the
\* subtotal with one bucket as L equals the subtotal with the other as L,
\* the factor being 2 for distinct buckets and 1 for a bucket with itself.
C6_SwapSymmetric ==
    tasks # None =>
        \A k \in DOMAIN tasks[1] :
            /\ SubtotalLR(tasks[1][k].left, tasks[1][k].right)
                = SubtotalLR(tasks[1][k].right, tasks[1][k].left)
            /\ tasks[1][k].factor = IF tasks[1][k].left # tasks[1][k].right THEN 2 ELSE 1

\* C7: when L.key is empty the subtotal is (sum of L.weights) * (sum of
\* R.weights); a bucket with the empty key is paired with itself, with
\* factor 1, and adds (sum of its weights)^2 to Omega.
C7_NeutralBucket ==
    /\ \A a \in DOMAIN snap.buckets, b \in DOMAIN snap.buckets :
            snap.buckets[a].key = <<>> =>
                SubtotalLR(a, b) =
                    SumSeq(snap.buckets[a].weights) * SumSeq(snap.buckets[b].weights)
    /\ \A k \in DOMAIN results :
            (Solved(k) /\ results[k][1].key_left = <<>>) =>
                /\ tasks[1][k].left = tasks[1][k].right
                /\ tasks[1][k].factor = 1
                /\ results[k][1].subtotal =
                      SumSeq(snap.buckets[tasks[1][k].left].weights)
                        * SumSeq(snap.buckets[tasks[1][k].left].weights)
    /\ \A a \in DOMAIN snap.buckets :
            (AllSolved /\ snap.buckets[a].key = <<>>) =>
                \E k \in DOMAIN results :
                    tasks[1][k].left = a /\ tasks[1][k].right = a

\* a neutral bucket of weight 2 solved next to another pair: it adds 4
C7_Witness ==
    /\ AllSolved
    /\ Len(snap.buckets) = 2
    /\ \E k \in DOMAIN results :
        /\ results[k][1].key_left = <<>>
        /\ results[k][1].subtotal = 4
    /\ Omega > 4

(***************************************************************************)
(* Properties of the enumeration                                           *)
(***************************************************************************)
\* the library entry that is piece j (jidx is a bijection in these inputs)
EntryOf(j) == CHOOSE k \in DOMAIN pre.jidx : pre.jidx[k] = j
HasEntry(j) == \E k \in DOMAIN pre.jidx : pre.jidx[k] = j

StrictlyAscending(s) == \A x \in 1..(Len(s) - 1) : s[x] < s[x + 1]

BucketCodes(bk) == Range(bk.codes) \cup Range(bk.pend_codes)

\* every (partial_mask, code) held in a frontier, taken from one, or on its
\* way to one
FrontierEntries ==
    UNION {UNION {{<<all_frontiers[r].masks[p], c>> :
                        c \in BucketCodes(all_frontiers[r].buckets[p])} :
                    p \in DOMAIN all_frontiers[r].masks} :
            r \in DOMAIN all_frontiers} \cup
    UNION {{<<pmasks[p], c>> : c \in BucketCodes(buckets[p])} : p \in DOMAIN pmasks} \cup
    UNION {UNION {{<<key[2], c>> : c \in Range(jobs[k].frontier_map[key].codes)} :
                    key \in DOMAIN jobs[k].frontier_map} : k \in DOMAIN jobs}

\* every code held in an output bucket or on its way to one
OutCodes ==
    UNION {BucketCodes(out[key]) : key \in DOMAIN out} \cup
    UNION {UNION {Range(jobs[k].completed_map[key].codes) :
                    key \in DOMAIN jobs[k].completed_map} : k \in DOMAIN jobs}

PopSum(code) ==
    LET js == code_iter(code, B) IN SumSeq([x \in DOMAIN js |-> jbt_ref_pop[js[x] + 1]])
MaskUnion(code) ==
    LET js == code_iter(code, B)
    IN UNION {pre.masks[EntryOf(js[x])] : x \in DOMAIN js}

Returned == pc = "done"
SnapBuckets == snapshot[1].buckets
SnapRows(bucket) == [r \in 1..n_rows(bucket) |-> row_slice(bucket, r - 1)]
SnapWeightSum == SumSeq([x \in DOMAIN SnapBuckets |-> SumSeq(SnapBuckets[x].weights)])

Anchor(k) == SetMin(pre.masks[k])

\* the left-half tilings under the library: sets of entries with pairwise
\* disjoint masks whose union is half_mask
Tilings ==
    {T \in SUBSET (DOMAIN pre.masks) :
        /\ \A a \in T, c \in T : a # c => pre.masks[a] \cap pre.masks[c] = {}
        /\ UNION {pre.masks[k] : k \in T} = left_half_mask(n)}

\* the partial mask a tiling has reached once its piece k is placed
MaskAfter(T, k) == UNION {pre.masks[a] : a \in {c \in T : Anchor(c) <= Anchor(k)}}
\* no piece of the tiling is dropped by the evil test or by ENUM_FIRST_LIMIT
Survives(T) ==
    /\ \A k \in T : Anchor(k) = 0 => k <= RangeOf(0).e_eff
    /\ \A k \in T : Anchor(k) < EvilCut => ~detect_evil_pmask(MaskAfter(T, k), n)

\* the data model's preconditions on a library: every pop in 1..N-1, every
\* mask within the left half and filed under the root of its lowest cell
DataModelLibrary ==
    \A k \in DOMAIN pre.masks :
        /\ pre.pops[k] \in 1..(n - 1)
        /\ pre.masks[k] # {} /\ pre.masks[k] \subseteq left_half_mask(n)
        /\ pre.offsets[Anchor(k) + 1] < k /\ k <= pre.offsets[Anchor(k) + 2]

\* C1 as stated: once the snapshot is returned for a library meeting the
\* data model's preconditions, with no saturation (and ENUM_FIRST_LIMIT
\* unset), the weights of all rows of all buckets add up to the number of
\* left-half tilings under the library.
C1_WeightsCountAllTilings ==
    (Returned /\ saturated = 0 /\ first_limit = None /\ DataModelLibrary)
        => SnapWeightSum = Cardinality(Tilings)

\* C1 amended: the weights add up to the number of tilings that no step of
\* the enumeration drops: tilings whose piece at root 0 is within the
\* ENUM_FIRST_LIMIT range and none of whose partial masks, formed at a root
\* below total_roots - N, is classified evil.
C1_WeightsCountSurvivingTilings ==
    (Returned /\ saturated = 0)
        => SnapWeightSum = Cardinality({T \in Tilings : Survives(T)})

\* a returned snapshot with a row of weight 2 and a tiling that was pruned
C1_Witness ==
    /\ Returned /\ saturated = 0
    /\ \E x \in DOMAIN SnapBuckets : \E r \in DOMAIN SnapBuckets[x].weights :
            SnapBuckets[x].weights[r] >= 2
    /\ \E T \in Tilings : ~Survives(T)

\* the statement of C2 over every library: every row of an output bucket lists pieces whose masks
\* cover N*N/2 cells and whose populations add up to N*N/2; every frontier
\* entry lists pieces whose populations add up to popcount(partial_mask).
MaskCodeConsistency ==
    /\ \A c \in OutCodes :
            /\ \A j \in Range(code_iter(c, B)) : HasEntry(j)
            /\ Cardinality(MaskUnion(c)) = PopSum(c)
            /\ PopSum(c) = Cardinality(left_half_mask(n))
            /\ Cardinality(left_half_mask(n)) = (n * n) \div 2
    /\ \A e \in FrontierEntries : PopSum(e[2]) = Cardinality(e[1])

\* C2 as stated, for the libraries of the data model, whose pieces all
\* have a population below N (a piece of population N is never entered in
\* a code, see C3): the rows and frontier entries are as C2 says.
C2_MaskCodeConsistencyDataModel ==
    (\A k \in DOMAIN pre.pops : pre.pops[k] \in 1..(n - 1)) => MaskCodeConsistency

\* S1: N = 2, the single piece mask 0b11, pop 2, jidx 0
S1 == n = 2 /\ pre.masks = << {0, 1} >> /\ pre.pops = <<2>> /\ pre.jidx = <<0>>

\* C3 as stated: S1 returns one bucket, key [2], weights [1], rows [[0]].
C3_S1KeyTwo ==
    (S1 /\ Returned) =>
        SnapBuckets = << [rows_data |-> <<0>>, indptr |-> <<0, 1>>,
                          weights |-> <<1>>, key |-> <<2>>] >>

\* C3 amended: S1 returns one bucket with the empty key, weights [1] and the
\* one empty row: a piece of population N is not entered in the code.
C3_S1NeutralKey ==
    (S1 /\ Returned) =>
        /\ Len(SnapBuckets) = 1
        /\ SnapBuckets[1].key = <<>>
        /\ SnapBuckets[1].weights = <<1>>
        /\ SnapRows(SnapBuckets[1]) = << <<>> >>
        /\ SnapBuckets[1].rows_data = <<>>
        /\ SnapBuckets[1].indptr = <<0, 0>>

C3_Witness == S1 /\ Returned

\* C10 as stated: every code in a frontier bucket or an output bucket, at
\* any point of the enumeration, decodes to a strictly ascending sequence
\* of piece indices (its length is the stored length by construction).
C10_CodesAscending ==
    \A c \in {e[2] : e \in FrontierEntries} \cup OutCodes :
        /\ StrictlyAscending(code_iter(c, B))
        /\ Len(code_iter(c, B)) = code_len(c)

(***************************************************************************)
(* One packed code under arbitrary callers: the indices of a library of M  *)
(* pieces are inserted in any order, with b = bitwidth(M) as               *)
(* enumerate_to_snapshot takes it.  A code may be set aside and a second,  *)
(* short one built next to it, as two codes meet in the sort of a flush.   *)
(***************************************************************************)
PieceCounts == {1, 2, 3, 16, 100, 4096, 8192}

\* the piece indices tried for a library of mm pieces, all below mm
Indices(mm) ==
    IF mm <= 4 THEN 0..(mm - 1)
    ELSE IF mm = 16 THEN {0, 1, 2, 3, 15}
    ELSE IF mm = 100 THEN {0, 1, 2, 3, 5, 8, 13, 64, 85, 98, 99}
    ELSE IF mm = 8192 THEN {0, 1, 2, 3, 4, 5, 6, 7, 8, 8191}
    ELSE {0, 1, mm \div 2, mm - 1}

MaxSecondLen == 2

CwB == bitwidth(cw_m)

InitCode ==
    /\ IdleEnum /\ IdleBkt /\ IdleCmp /\ IdleSolve /\ IdleBoard /\ IdleLoad
    /\ cw_m \in PieceCounts
    /\ cw_code = {} /\ cw_set = {}
    /\ cw_other = None /\ cw_oset = {}

InsertIndex(j) ==
    /\ cw_other = None \/ code_len(cw_code) < MaxSecondLen
    /\ LET r == code_insert(cw_code, j, CwB)
       IN /\ cw_code' = r[1]
          /\ cw_set' = IF r[2] THEN cw_set \cup {j} ELSE cw_set
    /\ UNCHANGED <<cw_m, cw_other, cw_oset>>
    /\ UNCHANGED <<enumVars, bktVars, cmpVars, solveVars, boardVars, loadVars>>

SetAside ==
    /\ cw_other = None
    /\ cw_other' = Some(cw_code)
    /\ cw_oset' = cw_set
    /\ cw_code' = {}
    /\ cw_set' = {}
    /\ UNCHANGED cw_m
    /\ UNCHANGED <<enumVars, bktVars, cmpVars, solveVars, boardVars, loadVars>>

NextCode ==
    \/ \E j \in Indices(cw_m) : InsertIndex(j)
    \/ SetAside

SpecCode == InitCode /\ [][NextCode]_vars

\* the least e with 2^e >= mm
ceil_log2(mm) == CHOOSE e \in 0..32 : 2^e >= mm /\ \A f \in 0..(e - 1) : 2^f < mm

\* a code as the data model has it: at most 10 fields, strictly ascending,
\* and no bit set above its last field
Canonical(c, b) ==
    /\ code_len(c) <= 10
    /\ \A x \in 1..(code_len(c) - 1) : code_get(c, x - 1, b) < code_get(c, x, b)
    /\ c \subseteq 0..(4 + code_len(c) * b - 1)

\* C11: for every canonical code c and indices j, k below 2^b, if both
\* insertions succeed in both orders, inserting j then k gives the same
\* code as inserting k then j.
C11_InsertOrderIndependent ==
    (cw_other = None /\ Canonical(cw_code, CwB)) =>
        \A j \in Indices(cw_m), k \in Indices(cw_m) :
            LET j1 == code_insert(cw_code, j, CwB)
                jk == code_insert(j1[1], k, CwB)
                k1 == code_insert(cw_code, k, CwB)
                kj == code_insert(k1[1], j, CwB)
            IN (j < 2^CwB /\ k < 2^CwB /\ j < k
                    /\ j1[2] /\ jk[2] /\ k1[2] /\ kj[2]) => jk[1] = kj[1]

\* a code of 8 indices, built by insertions, that takes two more in either
\* order; the tenth field lies beyond bit 64
C11_Witness ==
    /\ cw_m = 100 /\ cw_other = None
    /\ Canonical(cw_code, CwB) /\ code_len(cw_code) = 8
    /\ \E j \in Indices(cw_m), k \in Indices(cw_m) :
        /\ j < k
        /\ code_insert(code_insert(cw_code, j, CwB)[1], k, CwB)[2]
        /\ code_insert(code_insert(cw_code, k, CwB)[1], j, CwB)[2]
        /\ code_insert(code_insert(cw_code, j, CwB)[1], k, CwB)[1] \cap (64..127) # {}

\* C12 as stated, for every piece index j of the library: code_insert(c, j)
\* returns (c, false) with c unchanged when j is present in c or c holds 10
\* indices; otherwise (c', true), c' of length k+1 decoding to the ascending
\* sequence of c with j at its sorted position.
C12_InsertContract ==
    Canonical(cw_code, CwB) =>
        \A j \in Indices(cw_m) :
            LET seq == code_iter(cw_code, CwB)
                r == code_insert(cw_code, j, CwB)
            IN IF j \in Range(seq) \/ Len(seq) = 10
               THEN r = <<cw_code, FALSE>>
               ELSE /\ r[2]
                    /\ code_len(r[1]) = Len(seq) + 1
                    /\ code_iter(r[1], CwB) = SeqOfSet(Range(seq) \cup {j})

\* C19 as stated: the field width is max(1, ceil(log2 M)); every index
\* written is read back unchanged, also from a field across bit 64; two
\* different index sets never give the same code.
C19_WidthHoldsEveryIndex ==
    /\ CwB = Max(1, ceil_log2(cw_m))
    /\ code_iter(cw_code, CwB) = SeqOfSet(cw_set)
    /\ (cw_other # None /\ cw_other[1] = cw_code) => cw_oset = cw_set

\* lexicographic order of two sequences
LexLess(s1, s2) ==
    \/ \E x \in 1..Min(Len(s1), Len(s2)) :
            s1[x] < s2[x] /\ \A y \in 1..(x - 1) : s1[y] = s2[y]
    \/ Len(s1) < Len(s2) /\ \A y \in 1..Len(s1) : s1[y] = s2[y]

\* the order that compares two sequences from the highest of 10 fields
\* down, an absent field counting as 0, and the lengths last
FieldAt(s, x) == IF x <= Len(s) THEN s[x] ELSE 0
TopDownLess(s1, s2) ==
    \/ \E x \in 1..10 :
            /\ FieldAt(s1, x) < FieldAt(s2, x)
            /\ \A y \in (x + 1)..10 : FieldAt(s1, y) = FieldAt(s2, y)
    \/ (\A x \in 1..10 : FieldAt(s1, x) = FieldAt(s2, x)) /\ Len(s1) < Len(s2)

BothCanonical ==
    cw_other # None /\ Canonical(cw_code, CwB) /\ Canonical(cw_other[1], CwB)

\* C20 as stated: for two canonical codes with the same b, c1 < c2 as
\* 128-bit integers iff decode(c1) precedes decode(c2) lexicographically.
C20_ValueOrderIsLexicographic ==
    BothCanonical =>
        /\ WordLess(cw_code, cw_other[1])
             <=> LexLess(code_iter(cw_code, CwB), code_iter(cw_other[1], CwB))
        /\ WordLess(cw_other[1], cw_code)
             <=> LexLess(code_iter(cw_other[1], CwB), code_iter(cw_code, CwB))

\* C20 amended: for two canonical codes with the same b, c1 < c2 as 128-bit
\* integers iff, comparing the decoded sequences from the highest field
\* down with absent fields as 0, the first difference has c1's field the
\* smaller, or there is none and c1 is the shorter.
C20_ValueOrderIsTopDown ==
    BothCanonical =>
        /\ WordLess(cw_code, cw_other[1])
             <=> TopDownLess(code_iter(cw_code, CwB), code_iter(cw_other[1], CwB))
        /\ WordLess(cw_other[1], cw_code)
             <=> TopDownLess(code_iter(cw_other[1], CwB), code_iter(cw_code, CwB))

\* [1,3] next to [2] with b = 4: [2] is the smaller integer
C20_Witness ==
    /\ BothCanonical /\ cw_m = 16
    /\ code_iter(cw_code, CwB) = <<1, 3>>
    /\ code_iter(cw_other[1], CwB) = <<2>>
    /\ WordLess(cw_other[1], cw_code)

(***************************************************************************)
(* One bitboard under arbitrary callers: cells of a pool are covered one   *)
(* by one, detect_evil_pmask runs on every partial mask, and flood_fill    *)
(* runs from any seed over the uncovered cells.  A shift by 64 or more     *)
(* wraps in a build without overflow checks and panics in a build with     *)
(* them; the source fixes no profile, so both builds are followed.         *)
(***************************************************************************)
BoardSizesWide == {2, 4, 6, 8, 10}

\* the cells covered or left open: the whole half for a small board, else
\* the two rightmost columns of the half around the middle rows
CellPool(nn) ==
    IF nn <= 4 THEN left_half_mask(nn)
    ELSE {x * nn + y : x \in {nn \div 2 - 2, nn \div 2 - 1},
                       y \in (nn \div 2 - 1)..(nn \div 2 + 2)}

\* the domain flood_fill is given: the uncovered cells of the half, and one
\* cell of the right half next to them
FloodDomain ==
    (left_half_mask(bd_n) \ bd_mask) \cup {(bd_n \div 2) * bd_n + bd_n \div 2}

Seeds(nn) ==
    {{c} : c \in CellPool(nn)} \cup {{SetMin(CellPool(nn)), SetMax(CellPool(nn))}}

InitBoard ==
    /\ IdleEnum /\ IdleBkt /\ IdleCmp /\ IdleSolve /\ IdleCode /\ IdleLoad
    /\ bd_n \in BoardSizesWide
    /\ bd_checks \in BOOLEAN
    /\ bd_mask = left_half_mask(bd_n) \ CellPool(bd_n)
    /\ bd_evil = detect_evil_outcome(bd_mask, bd_n, bd_checks)
    /\ bd_seed = {}
    /\ bd_fill = flood_fill_outcome({}, FloodDomain, bd_n, bd_checks)

CoverCell(cell) ==
    /\ cell \notin bd_mask
    /\ bd_mask' = bd_mask \cup {cell}
    /\ bd_evil' = detect_evil_outcome(bd_mask \cup {cell}, bd_n, bd_checks)
    /\ bd_seed' = {}
    /\ bd_fill' = flood_fill_outcome({}, FloodDomain \ {cell}, bd_n, bd_checks)
    /\ UNCHANGED <<bd_n, bd_checks>>
    /\ UNCHANGED <<enumVars, bktVars, cmpVars, solveVars, codeVars, loadVars>>

FloodFrom(seed) ==
    /\ bd_seed' = seed
    /\ bd_fill' = flood_fill_outcome(seed, FloodDomain, bd_n, bd_checks)
    /\ UNCHANGED <<bd_n, bd_checks, bd_mask, bd_evil>>
    /\ UNCHANGED <<enumVars, bktVars, cmpVars, solveVars, codeVars, loadVars>>

NextBoard ==
    \/ \E cell \in CellPool(bd_n) : CoverCell(cell)
    \/ \E seed \in Seeds(bd_n) : FloodFrom(seed)

SpecBoard == InitBoard /\ [][NextBoard]_vars

\* cells (x, y) and (x', y') of the grid are 4-neighbours
Adjacent(p, q, nn) ==
    LET px == p \div nn
        py == p % nn
        qx == q \div nn
        qy == q % nn
    IN \/ px = qx /\ (py = qy + 1 \/ qy = py + 1)
       \/ py = qy /\ (px = qx + 1 \/ qx = px + 1)

\* the 4-connected component of the cells S within H
RECURSIVE Component(_, _, _)
Component(S, H, nn) ==
    LET nxt == S \cup {q \in H : \E p \in S : Adjacent(p, q, nn)}
    IN IF nxt = S THEN S ELSE Component(nxt, H, nn)

\* some component of half_mask minus P has no cell of column N/2-1 and a
\* cell count not divisible by N
EnclosedIndivisible(P, nn) ==
    LET H == left_half_mask(nn) \ P
        escape == {(nn \div 2 - 1) * nn + y : y \in 0..(nn - 1)}
    IN \E p \in H :
          LET comp == Component({p}, H, nn)
          IN comp \cap escape = {} /\ Cardinality(comp) % nn # 0

\* C13 as stated: for every partial mask P within half_mask, whenever
\* detect_evil_pmask(P) returns, it returns true iff some 4-connected
\* component of half_mask minus P that has no cell of column N/2-1 has a
\* cell count not divisible by N.
C13_EvilIffEnclosedIndivisible ==
    (bd_mask \subseteq left_half_mask(bd_n) /\ ~bd_evil.panic) =>
        (bd_evil.value <=> EnclosedIndivisible(bd_mask, bd_n))

\* C14: whenever flood_fill(seed, D) returns, what it returns is a subset
\* of D, and flood_fill of it over the same D returns it again.
C14_FloodFillIdempotent ==
    ~bd_fill.panic =>
        /\ bd_fill.value \subseteq FloodDomain
        /\ flood_fill_outcome(bd_fill.value, FloodDomain, bd_n, bd_checks)
              = [panic |-> FALSE, value |-> bd_fill.value]

\* a fill from one cell that grew to three cells or more and stopped short
\* of the domain
C14_Witness ==
    /\ bd_n = 4 /\ ~bd_fill.panic
    /\ Cardinality(bd_seed) = 1
    /\ Cardinality(bd_fill.value) >= 3
    /\ bd_fill.value # FloodDomain

\* the bits of row y of every column that a u64 holds
RowBits(nn, y) == {x * nn + y : x \in 0..(nn - 1)} \cap (0..63)

\* C21 as stated: for every even N from 2 to 10, edge_masks(N) returns
\* exactly the bits of row N-1 (top) and of row 0 (bottom), and flood_fill
\* over a domain within half_mask returns exactly the domain cells that
\* 4-neighbour steps reach from seed & domain.
C21_EdgeMasksAndFloodFillExact ==
    LET dom == left_half_mask(bd_n) \ bd_mask
        r == flood_fill_outcome(bd_seed, dom, bd_n, bd_checks)
    IN /\ ~(bd_checks /\ edge_shift_overflows(bd_n))
       /\ edge_masks(bd_n) = <<RowBits(bd_n, bd_n - 1), RowBits(bd_n, 0)>>
       /\ ~r.panic
       /\ r.value = Component(bd_seed \cap dom, dom, bd_n)

(***************************************************************************)
(* Properties of the enumeration: the snapshot as a function of the inputs *)
(***************************************************************************)
\* the code a tiling ends with: its pieces joined in anchor order, which is
\* the order of their entries in the library
RECURSIVE TilingCodeFrom(_, _)
TilingCodeFrom(ks, c) ==
    IF ks = <<>> THEN c ELSE TilingCodeFrom(Tail(ks), JoinCode(Head(ks), c))
TilingCode(T) == TilingCodeFrom(SeqOfSet(T), {})

Survivors == {T \in Tilings : Survives(T)}

RECURSIVE SortWords(_)
SortWords(S) ==
    IF S = {} THEN <<>>
    ELSE LET lo == CHOOSE x \in S : \A y \in S \ {x} : WordLess(x, y)
         IN <<lo>> \o SortWords(S \ {lo})

\* the output buckets the inputs determine: per population key the codes of
\* the surviving tilings, ascending, each with the clamped number of
\* surviving tilings that end with it
ExpectedOut ==
    LET codes == {TilingCode(T) : T \in Survivors}
        keyOf(c) == code_pop_key(c, B, jbt_ref_pop)
        count(c) == Cardinality({T \in Survivors : TilingCode(T) = c})
    IN [key \in {keyOf(c) : c \in codes} |->
            LET cs == SortWords({c \in codes : keyOf(c) = key})
            IN [codes |-> cs,
                weights |-> [x \in DOMAIN cs |-> Min(WEIGHT_MAX, count(cs[x]))],
                pend_codes |-> <<>>, pend_w |-> <<>>]]

\* a worker returns: its job goes from not done to done
WorkerReturns ==
    /\ pc = "vacate"
    /\ \E k \in DOMAIN jobs : k \in DOMAIN jobs' /\ ~jobs[k].done /\ jobs'[k].done

\* C15: the snapshot returned (keys, rows, weights) is the one the inputs
\* determine, whatever the order in which the workers of a root return and
\* the order in which the entries of their maps are merged; a worker's
\* return leaves the frontiers and the output buckets as they are, and they
\* are written only while no worker of the root is still running.
C15_SnapshotIndependentOfOrder ==
    /\ [](Returned => snapshot[1] = build_snapshot_from_out(ExpectedOut, B, jbt_ref_pop, n))
    /\ [][WorkerReturns => UNCHANGED <<all_frontiers, out, saturated>>]_vars
    /\ [][(all_frontiers' # all_frontiers \/ out' # out)
            => (pc \in {"entry", "root"} \/ (pc = "vacate" /\ Collected))]_vars

\* a snapshot from a library with a root of two pieces or more, holding two
\* buckets or more and a row that several tilings were merged into
C15_Witness ==
    /\ Returned
    /\ \E r \in 1..TotalRoots : pre.offsets[r + 1] - pre.offsets[r] >= 2
    /\ Len(SnapBuckets) >= 2
    /\ \E x \in DOMAIN SnapBuckets : \E r \in DOMAIN SnapBuckets[x].weights :
            SnapBuckets[x].weights[r] >= 2

\* C18: in the snapshot the populations of the pieces of every row, sorted,
\* are the key of the row's bucket; keys are ascending sequences and no two
\* buckets have the same key.
C18_RowsShareTheBucketKey ==
    Returned =>
        /\ \A x \in DOMAIN SnapBuckets :
             LET key == SnapBuckets[x].key IN
             /\ \A y \in 1..(Len(key) - 1) : key[y] <= key[y + 1]
             /\ \A r \in 0..(n_rows(SnapBuckets[x]) - 1) :
                  LET row == row_slice(SnapBuckets[x], r)
                  IN /\ Len(row) = Len(key)
                     /\ \A p \in 0..15 :
                          Cardinality({y \in DOMAIN row : jbt_ref_pop[row[y] + 1] = p})
                            = Cardinality({y \in DOMAIN key : key[y] = p})
        /\ \A x \in DOMAIN SnapBuckets, y \in DOMAIN SnapBuckets :
             x # y => SnapBuckets[x].key # SnapBuckets[y].key

\* a snapshot of two buckets or more, one of them with two rows or more
\* under a key of two populations, from a library whose indices fit the
\* field width
C18_Witness ==
    /\ Returned
    /\ 2^B >= m
    /\ Len(SnapBuckets) >= 2
    /\ \E x \in DOMAIN SnapBuckets :
        /\ n_rows(SnapBuckets[x]) >= 2
        /\ Len(SnapBuckets[x].key) >= 2

(***************************************************************************)
(* Loading an archive: load_inputs_npz and the entry of                    *)
(* enumerate_to_snapshot, over archives whose arrays have any lengths.     *)
(* Only the lengths and the offsets are looked at before the first root.   *)
(***************************************************************************)
MaxArrayLen == 2

ArrayLens == 0..MaxArrayLen
\* an array of len entries
ArrayOf(len, v) == [x \in 1..len |-> v]

\* the lengths pre_offsets may have for board size nn: none, one, and
\* around total_roots + 1
OffsetLens(nn) ==
    {0, 1, (nn \div 2) * nn, (nn \div 2) * nn + 1, (nn \div 2) * nn + 2}
OffsetArrays(nn) ==
    UNION {{o \in [1..len -> ArrayLens] : \A x \in 1..(len - 1) : o[x] <= o[x + 1]} :
            len \in OffsetLens(nn)}

\* Ok(Inputs) as [ok |-> TRUE, inputs |-> ...], Err as [ok |-> FALSE, ...]
load_inputs_npz(a) ==
    LET nnz == Len(a.pre_masks)
        failed == [ok |-> FALSE, inputs |-> None]
    IN IF Len(a.pre_pops) # nnz \/ Len(a.pre_jidx) # nnz THEN failed
       ELSE IF a.pre_offsets = <<>> THEN failed
       ELSE IF a.pre_offsets[Len(a.pre_offsets)] # nnz THEN failed
       ELSE IF Len(a.jbt_ref_pop) # a.M THEN failed
       ELSE [ok |-> TRUE,
             inputs |-> Some([n |-> a.N, m |-> a.M,
                              pre |-> [masks |-> a.pre_masks, pops |-> a.pre_pops,
                                       jidx |-> a.pre_jidx, offsets |-> a.pre_offsets,
                                       n_roots |-> Len(a.pre_offsets) - 1],
                              jbt_ref_pop |-> a.jbt_ref_pop])]

\* the root-count check skipped
root_count_ok_unchecked(p, nn) == TRUE

\* the check at the entry of enumerate_to_snapshot
root_count_ok(p, nn) == p.n_roots = (nn \div 2) * nn

InitLoad ==
    /\ IdleEnum /\ IdleBkt /\ IdleCmp /\ IdleSolve /\ IdleCode /\ IdleBoard
    /\ \E nn \in BoardSizes, mm \in ArrayLens :
       \E l1 \in ArrayLens, l2 \in ArrayLens, l3 \in ArrayLens, l4 \in ArrayLens :
       \E offs \in OffsetArrays(nn) :
            ld_in = [N |-> nn, M |-> mm,
                     pre_masks |-> ArrayOf(l1, {0}),
                     pre_pops |-> ArrayOf(l2, 1),
                     pre_jidx |-> ArrayOf(l3, 0),
                     pre_offsets |-> offs,
                     jbt_ref_pop |-> ArrayOf(l4, 1)]
    /\ ld_out = [status |-> "none", inputs |-> None, roots_seeded |-> 0]

\* enumerate_to_snapshot_from_npz: load_inputs_npz(path_npz)?
LoadInputs ==
    /\ ld_out.status = "none"
    /\ LET r == load_inputs_npz(ld_in)
       IN ld_out' = [status |-> IF r.ok THEN "loaded" ELSE "error",
                     inputs |-> r.inputs, roots_seeded |-> 0]
    /\ UNCHANGED ld_in
    /\ UNCHANGED <<enumVars, bktVars, cmpVars, solveVars, codeVars, boardVars>>

\* enumerate_to_snapshot up to the seed of root 0: from there on the roots
\* are processed
EnterSnapshot ==
    /\ ld_out.status = "loaded"
    /\ LET inp == ld_out.inputs[1]
       IN ld_out' = IF root_count_ok(inp.pre, inp.n)
                    THEN [ld_out EXCEPT !.status = "seeded", !.roots_seeded = 1]
                    ELSE [ld_out EXCEPT !.status = "error"]
    /\ UNCHANGED ld_in
    /\ UNCHANGED <<enumVars, bktVars, cmpVars, solveVars, codeVars, boardVars>>

NextLoad ==
    \/ LoadInputs
    \/ EnterSnapshot

SpecLoad == InitLoad /\ [][NextLoad]_vars

\* one of the archive's structural preconditions does not hold
Malformed ==
    \/ Len(ld_in.pre_pops) # Len(ld_in.pre_masks)
    \/ Len(ld_in.pre_jidx) # Len(ld_in.pre_masks)
    \/ ld_in.pre_offsets = <<>>
    \/ ld_in.pre_offsets[Len(ld_in.pre_offsets)] # Len(ld_in.pre_masks)
    \/ Len(ld_in.jbt_ref_pop) # ld_in.M
    \/ Len(ld_in.pre_offsets) - 1 # (ld_in.N * ld_in.N) \div 2

\* C16: an archive whose pre_masks/pre_pops/pre_jidx lengths differ, whose
\* last offset is not nnz, whose jbt_ref_pop length is not M, or whose root
\* count is not N*N/2 never gets as far as the seed of root 0: each step it
\* takes ends in the error, no root is processed and nothing is returned;
\* a well-formed archive is not rejected.
C16_MalformedInputRejected ==
    /\ Malformed =>
        /\ ld_out.status \in {"none", "loaded", "error"}
        /\ ld_out.roots_seeded = 0
        /\ (ld_out.status = "loaded" => ~root_count_ok(ld_out.inputs[1].pre, ld_in.N))
    /\ ~Malformed => ld_out.status # "error"

\* an archive with consistent lengths and a wrong root count, loaded and
\* then rejected at the entry of enumerate_to_snapshot
C16_Witness ==
    /\ Malformed
    /\ ld_out.status = "error"
    /\ ld_out.inputs # None
    /\ Len(ld_in.pre_masks) = MaxArrayLen

\* C17 as stated: with no compat table in the archive and jbt_ref_comps
\* absent or empty, the build does not fail and the table has an entry for
\* every p in 1..N-1, whatever jbt_ref_pop holds.
C17_BuildWithoutCompsSucceeds ==
    (cmp_in.archive = None /\ cmp_in.jbt_ref_comps = <<>> /\ cmp_out.status # "none") =>
        /\ cmp_out.status = "ok"
        /\ \A p \in 1..(cmp_in.n_total - 1) : p \in DOMAIN cmp_out.compat

(***************************************************************************)
(* Properties of the enumeration: the late roots                           *)
(***************************************************************************)
\* Kept with the evil test applied at every root
KeptTestingEveryRoot(k_pre) ==
    LET ok(idx) ==
            /\ pmasks[idx] \cap pre.masks[k_pre] = {}
            /\ ~detect_evil_pmask(pmasks[idx] \cup pre.masks[k_pre], n)
    IN SelectSeq([x \in 1..Len(pmasks) |-> x], ok)

\* C22: while a root is vacated, every piece of the root keeps the same
\* survivors with the skip as with the test applied at every root; and at a
\* root i >= total_roots - N every new_mask a piece produces is classified
\* non-evil by detect_evil_pmask.  The two enumerations take the same steps
\* from the same states, so their frontiers and output buckets agree.
C22_SkipChangesNothing ==
    pc = "vacate" =>
        \A k_pre \in DOMAIN jobs :
            /\ Kept(k_pre) = KeptTestingEveryRoot(k_pre)
            /\ i >= TotalRoots - n =>
                  \A idx \in DOMAIN pmasks :
                      pmasks[idx] \cap pre.masks[k_pre] = {} =>
                          ~detect_evil_pmask(pmasks[idx] \cup pre.masks[k_pre], n)

\* a late root of the 4x4 board with two partial masks in its frontier and a
\* piece whose worker found a survivor among them
C22_Witness ==
    /\ pc = "vacate" /\ n = 4 /\ i >= TotalRoots - n
    /\ Len(pmasks) >= 2
    /\ \E k_pre \in DOMAIN jobs : jobs[k_pre].done /\ Kept(k_pre) # <<>>

(***************************************************************************)
(* Properties of the compat table built from the component masks           *)
(***************************************************************************)
\* the component predicate on two triples of masks, zeros ignored: a single
\* component overlaps contiguously with every component of the other (one,
\* two or three of them); two against two need a1/b1 and a0/b0 contiguous
\* and exactly one of a1/b0, a0/b1
ComponentPredicate(c1, c2) ==
    LET nonzero(x) == x # 0
        a == SelectSeq(c1, nonzero)
        b == SelectSeq(c2, nonzero)
    IN \/ /\ Len(a) = 1 /\ Len(b) \in 1..3
          /\ \A y \in DOMAIN b : contiguous_overlap(a[1], b[y])
       \/ /\ Len(b) = 1 /\ Len(a) \in 1..3
          /\ \A y \in DOMAIN a : contiguous_overlap(b[1], a[y])
       \/ /\ Len(a) = 2 /\ Len(b) = 2
          /\ contiguous_overlap(a[2], b[2])
          /\ contiguous_overlap(a[1], b[1])
          /\ contiguous_overlap(a[2], b[1]) # contiguous_overlap(a[1], b[2])

\* the pair (j, x) occurs at some index of the two parallel arrays
InKeys(keys, j, x) ==
    \E y \in DOMAIN keys[1] : y \in DOMAIN keys[2] /\ keys[1][y] = j /\ keys[2][y] = x

\* C24 as stated: in the table build_compat_map returns, for every p in
\* 1..N-1 the pair (j, x) occurs in compat[p] iff pop[j] = p, pop[x] = N-p
\* and the component predicate holds for (j, x).
C24_TableIsThePredicate ==
    (/\ cmp_out.status = "ok" /\ cmp_in.archive = None
     /\ Len(cmp_in.jbt_ref_comps) = Len(cmp_in.jbt_ref_pop)) =>
        \A p \in 1..(cmp_in.n_total - 1) :
        \A j \in 0..(Len(cmp_in.jbt_ref_pop) - 1) :
        \A x \in 0..(Len(cmp_in.jbt_ref_pop) - 1) :
            InKeys(cmp_out.compat[p], j, x) <=>
                /\ cmp_in.jbt_ref_pop[j + 1] = p
                /\ cmp_in.jbt_ref_pop[x + 1] = cmp_in.n_total - p
                /\ ComponentPredicate(cmp_in.jbt_ref_comps[j + 1],
                                      cmp_in.jbt_ref_comps[x + 1])

(***************************************************************************)
(* Properties of the driver: the tasks and Omega                           *)
(***************************************************************************)
\* key k2 holds N - p as often as key k1 holds p
Complementary(k1, k2) ==
    /\ Len(k1) = Len(k2)
    /\ \A p \in 0..snap.n_total : Times(k1, p) = Times(k2, snap.n_total - p)

\* the unordered pairs of buckets with complementary keys, as <<a, b>>, a <= b
ComplementaryPairs ==
    {pr \in (DOMAIN snap.buckets) \X (DOMAIN snap.buckets) :
        /\ pr[1] <= pr[2]
        /\ Complementary(snap.buckets[pr[1]].key, snap.buckets[pr[2]].key)}

TaskPair(t) == <<Min(t.left, t.right), Max(t.left, t.right)>>

\* C25: once the tasks are built there is exactly one task for each
\* unordered pair of buckets with complementary keys and no other task; the
\* left side of a task has at most as many rows as the right side; the factor
\* is 2 for two distinct buckets and 1 for a self-pair; each result is the
\* subtotal of (L, R) times the factor; and when all tasks have returned, in
\* whatever order, Omega is the sum of these over the pairs.
C25_OneTaskPerComplementaryPair ==
    tasks # None =>
        LET ts == tasks[1]
            scaled(pr) ==
                LET t == ts[CHOOSE k \in DOMAIN ts : TaskPair(ts[k]) = pr]
                IN (IF pr[1] # pr[2] THEN 2 ELSE 1) * SubtotalLR(t.left, t.right)
        IN /\ \A pr \in ComplementaryPairs :
                Cardinality({k \in DOMAIN ts : TaskPair(ts[k]) = pr}) = 1
           /\ \A k \in DOMAIN ts :
                /\ TaskPair(ts[k]) \in ComplementaryPairs
                /\ n_rows(snap.buckets[ts[k].left]) <= n_rows(snap.buckets[ts[k].right])
                /\ ts[k].factor = IF ts[k].left # ts[k].right THEN 2 ELSE 1
                /\ results[k] # None =>
                      /\ ~results[k][1].panic
                      /\ results[k][1].subtotal =
                            ts[k].factor * SubtotalLR(ts[k].left, ts[k].right)
           /\ AllSolved =>
                Omega = SumOver([pr \in ComplementaryPairs |-> scaled(pr)],
                                ComplementaryPairs)

\* three buckets, a self-pair and a pair of distinct buckets, both solved
\* with a subtotal above zero
C25_Witness ==
    /\ AllSolved
    /\ Len(snap.buckets) = 3
    /\ Cardinality(ComplementaryPairs) = 2
    /\ \E k \in DOMAIN results :
          tasks[1][k].factor = 1 /\ results[k][1].subtotal > 0
    /\ \E k \in DOMAIN results :
          tasks[1][k].factor = 2 /\ results[k][1].subtotal > 0

(***************************************************************************)
(* Properties of the enumeration: what a worker returns                    *)
(***************************************************************************)
\* the (code, weight) entries of the survivors of piece k_pre, in order
SourcePairs(k_pre) ==
    LET kept == Kept(k_pre)
    IN Concat([x \in DOMAIN kept |->
                 LET bk == buckets[kept[x]]
                 IN [y \in DOMAIN bk.codes |-> <<bk.codes[y], bk.weights[y]>>]])

\* c2 is what the claim says code c becomes when piece k_pre is joined
Joined(k_pre, c, c2) ==
    IF pre.pops[k_pre] = n THEN c2 = c
    ELSE /\ c2 # c
         /\ code_len(c2) = code_len(c) + 1
         /\ code_iter(c2, B) = SeqOfSet(Range(code_iter(c, B)) \cup {pre.jidx[k_pre]})

\* how often the pair pr occurs among the entries of a returned map
CountIn(map, pr) ==
    SumOver([key \in DOMAIN map |->
                Cardinality({x \in DOMAIN map[key].codes :
                                <<map[key].codes[x], map[key].w[x]>> = pr})],
            DOMAIN map)
EntriesIn(map) ==
    UNION {{<<map[key].codes[x], map[key].w[x]>> : x \in DOMAIN map[key].codes} :
            key \in DOMAIN map}

\* C26 as stated, for every library: what the worker of a piece returns is,
\* entry for entry, the survivors' entries with the weight unchanged and the
\* code unchanged when the piece's pop is N, and otherwise changed into the
\* code that holds the piece's index j_pre at its sorted position.
C26_JoinKeepsWeightInsertsIndex ==
    [][\A k_pre \in DOMAIN jobs :
          (~jobs[k_pre].done /\ k_pre \in DOMAIN jobs' /\ jobs'[k_pre].done) =>
              LET src == SourcePairs(k_pre)
                  fm == jobs'[k_pre].frontier_map
                  cm == jobs'[k_pre].completed_map
                  got == EntriesIn(fm) \cup EntriesIn(cm)
              IN /\ SumOver([pr \in got |-> CountIn(fm, pr) + CountIn(cm, pr)], got)
                        = Len(src)
                 /\ \A pr \in got :
                        CountIn(fm, pr) + CountIn(cm, pr) =
                            Cardinality({x \in DOMAIN src :
                                            /\ src[x][2] = pr[2]
                                            /\ Joined(k_pre, src[x][1], pr[1])})
      ]_vars

(***************************************************************************)
(* Properties of the enumeration: the memory watchdog and termination      *)
(***************************************************************************)
\* the positions of enumerate_to_snapshot that are not an abnormal end
Running == pc \in {"entry", "root", "vacate", "done"}

\* the memory report counts one call per root begun, an abort on the budget
\* comes with the report of its root, and no snapshot is returned after it
ReportsMatchRoots ==
    /\ pc = "root" => mem_reports = i
    /\ pc = "vacate" => mem_reports = i + 1
    /\ pc = "done" => mem_reports = TotalRoots
    /\ pc = "error" =>
          mem_budget /\ mem_reports = i + 1 /\ i < TotalRoots /\ snapshot = None

\* a report is made in the step that takes root i's frontier, before any
\* worker of the root has run; an abort happens only in such a step and
\* only with a budget configured; no step follows an abort
ReportStep ==
    /\ mem_reports' # mem_reports =>
          /\ pc = "root" /\ mem_reports' = mem_reports + 1 /\ i' \in {i, i + 1}
          /\ all_frontiers'[i + 1] = EmptyFrontier
          /\ \A k \in DOMAIN jobs' : ~jobs'[k].done
    /\ (pc = "root" /\ i < TotalRoots) => mem_reports' = mem_reports + 1
    /\ pc' = "error" => (mem_budget /\ mem_reports' = mem_reports + 1)
    /\ pc # "error"

\* C27 as stated: the budget is checked exactly once per root, right after
\* the root's frontier is taken and before its pieces are joined, also when
\* the frontier or the library range is empty; over budget the enumeration
\* stops at that root with an error and returns no snapshot; and nothing
\* but this ends the enumeration before its last root.
C27_OnlyTheBudgetForcesTermination ==
    /\ []ReportsMatchRoots
    /\ [][ReportStep]_vars
    /\ [][~Running' => (pc' = "error" /\ mem_budget)]_vars

(***************************************************************************)
(* Properties of the packed code: the room of the u128                     *)
(***************************************************************************)
\* the fields of a code of k indices end below bit 4 + k*b
FieldsFit(k, b) == k * b + 4 <= 128

\* C28: the packed codes fit their word.  Every library enumerated has
\* 10*bitwidth(M) + 4 <= 128, no index field of a code reaches bit 128, and
\* every index a code has accepted is read back from it: no code is built
\* with a truncated field (libraries whose indices need more than
\* bitwidth(M) bits are left to C19).
C28_CodesFitTheWord ==
    /\ FieldsFit(10, CwB)
    /\ FieldsFit(code_len(cw_code), CwB)
    /\ 2^CwB >= cw_m => Range(code_iter(cw_code, CwB)) = cw_set

(***************************************************************************)
(* Properties of the enumeration: where the successors go                  *)
(***************************************************************************)
\* the roots whose frontier has been taken: those below i, and i itself
\* while its workers and the merge run
Drained(r) == r < i \/ (r = i /\ pc \in {"vacate", "panic"})

\* C29: with every piece of root i holding bit i inside half_mask (every
\* library of the model), each mask stored in root r's frontier, and each
\* mask taken from it, has r as its lowest uncovered cell; each successor a
\* worker returns goes to the output buckets or to the frontier of a root
\* above i; a drained frontier stays empty; and when the snapshot is built
\* no frontier holds an entry.
C29_SuccessorsGoForward ==
    /\ \A r \in DOMAIN all_frontiers :
          /\ \A x \in DOMAIN all_frontiers[r].masks :
                RootCode(all_frontiers[r].masks[x]) = r - 1
          /\ Drained(r - 1) => all_frontiers[r] = EmptyFrontier
    /\ \A x \in DOMAIN pmasks : RootCode(pmasks[x]) = i
    /\ \A k \in DOMAIN jobs : \A key \in DOMAIN jobs[k].frontier_map :
          /\ key[1] = RootCode(key[2])
          /\ key[1] = -1 \/ (key[1] > i /\ key[1] < TotalRoots)
    /\ pc = "done" =>
          \A r \in DOMAIN all_frontiers : all_frontiers[r] = EmptyFrontier

\* at a root after the first, the merge has filed a successor in the
\* frontier of a later root and a completed row in the output buckets
C29_Witness ==
    /\ pc = "vacate" /\ i > 0
    /\ DOMAIN out # {}
    /\ \E r \in DOMAIN all_frontiers : r - 1 > i /\ all_frontiers[r].masks # <<>>
    /\ \E k \in DOMAIN jobs : jobs[k].done /\ ~Pending(k)

(***************************************************************************)
(* Properties of the enumeration: termination                              *)
(***************************************************************************)
\* entries of the workers' maps not merged yet
Unmerged ==
    Cardinality(UNION {
        {<<k, 0, key>> : key \in DOMAIN jobs[k].frontier_map}
        \cup {<<k, 1, key>> : key \in DOMAIN jobs[k].completed_map} :
        k \in DOMAIN jobs})

\* the variant of the loop: stage of the call, roots left, position within
\* the root, workers not returned, map entries not merged
Rank ==
    << IF pc = "entry" THEN 2 ELSE IF pc \in {"root", "vacate"} THEN 1 ELSE 0,
       TotalRoots - i,
       IF pc = "root" THEN 1 ELSE 0,
       Cardinality({k \in DOMAIN jobs : ~jobs[k].done}),
       Unmerged >>

\* lexicographic order of two variants
RankLess(a, b) ==
    \E x \in DOMAIN a : a[x] < b[x] /\ \A y \in 1..(x - 1) : a[y] = b[y]

\* a step lowers the variant
RankDrops == LET after == Rank'
                 before == Rank
             IN RankLess(after, before)

\* some step of the enumeration can be taken: the guards of Enter,
\* BeginRoot, Finish, Worker, the two merges and EndRoot
CanStep ==
    \/ pc = "entry"
    \/ pc = "root" /\ i < TotalRoots
    \/ pc = "root" /\ i = TotalRoots
    \/ pc = "vacate" /\ \E k \in DOMAIN jobs : ~jobs[k].done
    \/ pc = "vacate" /\ Collected /\ \E k \in DOMAIN jobs : Pending(k)
    \/ pc = "vacate" /\ Collected /\ \A k \in DOMAIN jobs : ~Pending(k)

\* C30: without an RSS abort enumerate_to_snapshot terminates with the
\* snapshot built.  Every step lowers the variant of the loop, whose parts
\* are natural numbers; the run stops only with the snapshot built or at
\* the abort; the root counter moves by single steps and the snapshot is
\* built after all total_roots roots were visited, once each; and the
\* output buckets hold no pending entry when the snapshot is built.
C30_TerminatesWithEveryRootVisited ==
    /\ [][RankDrops]_vars
    /\ [](\A x \in DOMAIN Rank : Rank[x] >= 0)
    /\ [](pc \in {"done", "error"} \/ CanStep)
    /\ [](pc = "error" => mem_budget)
    /\ [][i' = i \/ (i' = i + 1 /\ mem_reports' = i')]_vars
    /\ [](pc = "done" =>
            /\ i = TotalRoots /\ mem_reports = TotalRoots
            /\ snapshot # None
            /\ \A key \in DOMAIN out :
                  out[key].pend_codes = <<>> /\ out[key].pend_w = <<>>)

====
